---- MODULE Spec2Model ----
(***************************************************************************)
(* Model of the concurrent file-compilation engine of Al-Khawarizmi        *)
(* (src/file_processor.py; src/compile_project.py carries the same code as *)
(* methods of ProjectTextCLI).                                             *)
(*                                                                         *)
(* Paths, names and glob patterns are sequences of one-character strings.  *)
(* Output files are sequences of blocks; a block records what was written  *)
(* (header, tree, fragment of a task, content from before the run) and its *)
(* byte length, computed from the string templates of the source.          *)
(***************************************************************************)
EXTENDS Integers, Sequences, FiniteSets, TLC

VARIABLES
    fs,            \* the scanned directory: existence, listing, file attributes
    cfg,           \* arguments of compile_project_files
    orch,          \* position of compile_project_files
    file_counter,  \* {'count', 'first_file', 'tree'} shared by all tasks
    file_list,     \* candidate files in discovery order
    pc,            \* position of each task of the pool (process_file)
    file_content,  \* per task: byte length of the rendered fragment
    cur,           \* per task: index held in current_output_file
    current_size,  \* per task: result of os.path.getsize
    write_lock,    \* 0 when free, else the task that holds it
    disk,          \* output location: file index -> sequence of blocks
    total_size,    \* total size reported by the aggregation
    total_tokens,  \* total number of tokens reported by the aggregation
    files_processed, \* results the loop over executor.map has received
    fault,         \* the failure the environment produces during this run
    codebase,      \* the files the chunk analyzer discovers, in discovery order
    sfp,           \* the SmartFileProcessor object and the position of process()
    cli            \* Project2TextCLI.process_files: its position and its log

vars == <<fs, cfg, orch, file_counter, file_list, pc, file_content, cur,
          current_size, write_lock, disk, total_size, total_tokens,
          files_processed, fault,
          codebase, sfp, cli>>

\* the state of the compilation stage (src/file_processor.py)
compile_vars == <<fs, cfg, orch, file_counter, file_list, pc, file_content, cur,
                  current_size, write_lock, disk, total_size, total_tokens,
                  files_processed, fault>>

-----------------------------------------------------------------------------
(* Bounds of the model *)

\* highest output file index the rollover loop may reach
MaxCount == 4
\* threads of the pool
MaxWorkers == 2

-----------------------------------------------------------------------------
(* Strings as sequences of characters *)

SEP == <<"/">>

join(root, name) == root \o SEP \o name

Range(s) == {s[i] : i \in 1..Len(s)}

StartsWith(s, p) == Len(p) <= Len(s) /\ SubSeq(s, 1, Len(p)) = p

endswith(s, suffix) ==
    Len(suffix) <= Len(s) /\ SubSeq(s, Len(s) - Len(suffix) + 1, Len(s)) = suffix

\* str.replace(old, ''), old non-empty
RECURSIVE replace(_, _)
replace(s, old) ==
    IF s = <<>> THEN <<>>
    ELSE IF StartsWith(s, old) THEN replace(SubSeq(s, Len(old) + 1, Len(s)), old)
    ELSE <<Head(s)>> \o replace(Tail(s), old)

\* str.count(os.sep)
count_sep(s) == Cardinality({i \in 1..Len(s) : s[i] = "/"})

RECURSIVE Spaces(_)
Spaces(n) == IF n = 0 THEN <<>> ELSE <<" ">> \o Spaces(n - 1)

\* number of decimal digits of a natural number
RECURSIVE Digits(_)
Digits(n) == IF n < 10 THEN 1 ELSE 1 + Digits(n \div 10)

\* fnmatch.fnmatch on POSIX: '*' matches any run of characters (also '/'),
\* '?' one character, anything else itself; the whole name must match.
\* The patterns drawn below hold no '[' class.
RECURSIVE fnmatch(_, _)
fnmatch(name, pat) ==
    IF pat = <<>> THEN name = <<>>
    ELSE IF Head(pat) = "*"
         THEN fnmatch(name, Tail(pat))
              \/ (name # <<>> /\ fnmatch(Tail(name), pat))
    ELSE IF name = <<>> THEN FALSE
    ELSE IF Head(pat) = "?" THEN fnmatch(Tail(name), Tail(pat))
    ELSE Head(pat) = Head(name) /\ fnmatch(Tail(name), Tail(pat))

\* any(fnmatch.fnmatch(path, pattern) for pattern in patterns)
any_fnmatch(path, patterns) ==
    \E i \in 1..Len(patterns) : fnmatch(path, patterns[i])

any_endswith(name, exts) ==
    \E i \in 1..Len(exts) : endswith(name, exts[i])

\* [x for x in s if keep(x)] for the filters used by the walks
RECURSIVE not_ignored(_, _, _)
not_ignored(root, names, ignore_patterns) ==
    IF names = <<>> THEN <<>>
    ELSE (IF any_fnmatch(join(root, Head(names)), ignore_patterns)
          THEN <<>> ELSE <<Head(names)>>)
         \o not_ignored(root, Tail(names), ignore_patterns)

\* the filter on exclude_dirs left out
not_in_keeps_all(names, excluded) == names

RECURSIVE not_in(_, _)
not_in(names, excluded) ==
    IF names = <<>> THEN <<>>
    ELSE (IF Head(names) \in Range(excluded) THEN <<>> ELSE <<Head(names)>>)
         \o not_in(Tail(names), excluded)

\* os.path.relpath(file_path, dir_path) for a path below dir_path
relpath(file_path, dir_path) == SubSeq(file_path, Len(dir_path) + 2, Len(file_path))

\* os.path.basename
RECURSIVE basename(_)
basename(path) ==
    IF \A i \in 1..Len(path) : path[i] # "/" THEN path
    ELSE basename(Tail(path))

RECURSIVE paths_of(_, _)
paths_of(root, names) ==
    IF names = <<>> THEN <<>>
    ELSE <<join(root, Head(names))>> \o paths_of(root, Tail(names))

-----------------------------------------------------------------------------
(* The scanned directory *)

\* the classes an except clause matches the exception against
Bases(error) ==
    IF error = "FileNotFoundError" THEN {"FileNotFoundError", "OSError", "Exception"}
    ELSE IF error = "PermissionError" THEN {"PermissionError", "OSError", "Exception"}
    ELSE IF error = "OSError" THEN {"OSError", "Exception"}
    ELSE IF error = "TypeError" THEN {"TypeError", "Exception"}
    ELSE {}

\* a handler that names FileNotFoundError only
is_binary_except_missing(error) == "FileNotFoundError" \in Bases(error)

\* except Exception as e: logging.error(...); return True
is_binary_except(error) == "Exception" \in Bases(error)

\* the exception of open(file_path, 'rb') leaves is_binary
is_binary_raises(attr, file_path) ==
    /\ attr[file_path].open_error # "none"
    /\ ~is_binary_except(attr[file_path].open_error)

\* True from the handler when the open fails; otherwise whether chardet
\* finds no encoding in the first 1024 bytes
is_binary(attr, file_path) ==
    IF attr[file_path].open_error # "none" THEN TRUE
    ELSE attr[file_path].binary

\* tree_lines of one directory: its own line, then one line per kept file
RECURSIVE file_lines(_, _)
file_lines(sub_indent, files) ==
    IF files = <<>> THEN <<>>
    ELSE <<sub_indent \o Head(files)>> \o file_lines(sub_indent, Tail(files))

\* the os.walk loop of generate_tree; stack holds the directories still to
\* visit, top-down, the pruned dirs of a directory before its siblings
RECURSIVE tree_walk(_, _, _, _)
tree_walk(stack, dir_path, ignore_patterns, ls) ==
    IF stack = <<>> THEN <<>>
    ELSE LET root == Head(stack)
             dirs == not_ignored(root, ls[root].dirs, ignore_patterns)
             level == count_sep(replace(root, dir_path))
             indent == Spaces(4 * level)
             sub_indent == Spaces(4 * (level + 1))
             files == not_ignored(root, ls[root].files, ignore_patterns)
         IN  <<indent \o basename(root) \o SEP>>
             \o file_lines(sub_indent, files)
             \o tree_walk(paths_of(root, dirs) \o Tail(stack), dir_path,
                          ignore_patterns, ls)

\* the tree built with a pattern of its own besides the configured ones
generate_tree_own_patterns(dir_path, ignore_patterns, ls) ==
    tree_walk(<<dir_path>>, dir_path, ignore_patterns \o <<<<"*", ".", "p", "y">>>>, ls)

generate_tree(dir_path, ignore_patterns, ls) ==
    tree_walk(<<dir_path>>, dir_path, ignore_patterns, ls)

\* the extension checks with a listed include extension overriding the
\* exclude list
passes_filters_include_wins(file, file_path, c, attr) ==
    /\ ~(file \in Range(c.exclude_files))
    /\ \/ (c.include_extensions # <<>> /\ any_endswith(file, c.include_extensions))
       \/ /\ c.include_extensions = <<>>
          /\ ~(c.exclude_extensions # <<>> /\ any_endswith(file, c.exclude_extensions))
    /\ ~(c.pattern_include # <<>> /\ ~any_fnmatch(file, c.pattern_include))
    /\ ~(c.pattern_exclude # <<>> /\ any_fnmatch(file, c.pattern_exclude))
    /\ ~is_binary(attr, file_path)

\* the body of "for file in files": TRUE when no continue is taken
passes_filters(file, file_path, c, attr) ==
    /\ ~(file \in Range(c.exclude_files))
    /\ ~(c.include_extensions # <<>> /\ ~any_endswith(file, c.include_extensions))
    /\ ~(c.exclude_extensions # <<>> /\ any_endswith(file, c.exclude_extensions))
    /\ ~(c.pattern_include # <<>> /\ ~any_fnmatch(file, c.pattern_include))
    /\ ~(c.pattern_exclude # <<>> /\ any_fnmatch(file, c.pattern_exclude))
    /\ ~is_binary(attr, file_path)

RECURSIVE files_loop(_, _, _, _)
files_loop(root, files, c, attr) ==
    IF files = <<>> THEN <<>>
    ELSE (IF passes_filters(Head(files), join(root, Head(files)), c, attr)
          THEN <<join(root, Head(files))>> ELSE <<>>)
         \o files_loop(root, Tail(files), c, attr)

\* the os.walk loop of compile_project_files that fills file_list
RECURSIVE collect_walk(_, _, _)
collect_walk(stack, c, f) ==
    IF stack = <<>> THEN <<>>
    ELSE LET root == Head(stack)
             dirs == not_in(not_ignored(root, f.ls[root].dirs, c.ignore_patterns),
                            c.exclude_dirs)
             files == not_ignored(root, f.ls[root].files, c.ignore_patterns)
         IN  files_loop(root, files, c, f.attr)
             \o collect_walk(paths_of(root, dirs) \o Tail(stack), c, f)

collect_files(c, f) == collect_walk(<<c.dir_path>>, c, f)

\* the exception that leaves the walk from a call of is_binary, "none" when
\* the walk completes
collect_error(c, f) ==
    LET opened == [p \in DOMAIN f.attr |->
                     [f.attr[p] EXCEPT !.binary = FALSE, !.open_error = "none"]]
        called == Range(collect_walk(<<c.dir_path>>, c, [f EXCEPT !.attr = opened]))
        raising == {p \in called : is_binary_raises(f.attr, p)}
    IN  IF raising = {} THEN "none"
        ELSE f.attr[CHOOSE p \in raising : TRUE].open_error

-----------------------------------------------------------------------------
(* Byte lengths of what the writer puts into the output files *)

\* the explanation templates of write_explanation without the four markers
MarkdownExplanationBytes == 666
HtmlExplanationBytes == 955
JsonExplanationBytes == 706

\* width of time.ctime() and of stat.filemode()
CtimeBytes == 24
FilemodeBytes == 10

\* len(explanation) as written by write_explanation
explanation_bytes(output_format, start_marker, end_marker) ==
    LET markers == 2 * Len(start_marker) + 2 * Len(end_marker)
    IN  IF output_format = "markdown" THEN MarkdownExplanationBytes + markers
        ELSE IF output_format = "html" THEN HtmlExplanationBytes + markers
        ELSE IF output_format = "json" THEN JsonExplanationBytes + markers
        ELSE 0

\* bytes of '\n'.join(tree)
RECURSIVE lines_bytes(_)
lines_bytes(tree) ==
    IF tree = <<>> THEN 0 ELSE Len(Head(tree)) + lines_bytes(Tail(tree))

joined_bytes(tree) ==
    IF tree = <<>> THEN 0 ELSE lines_bytes(tree) + (Len(tree) - 1)

\* bytes that write_tree_to_output adds to a file that holds the header
tree_bytes(output_format, tree) ==
    IF output_format = "markdown" THEN 40 + 4 + joined_bytes(tree) + 6
    ELSE IF output_format = "html" THEN 51 + joined_bytes(tree) + 8
    ELSE IF output_format = "json" THEN 26 + 12 * Len(tree) + lines_bytes(tree)
    ELSE 0

\* bytes of json.dump({'ascii_tree': tree}, indent=4)
tree_only_bytes(tree) == 28 + 12 * Len(tree) + lines_bytes(tree)

\* len(metadata_str): the five 'key: value' lines joined by '\n', or nothing
metadata_bytes(no_metadata, size, owner) ==
    IF no_metadata THEN 0
    ELSE (11 + Digits(size) + 6) + 1 + (15 + CtimeBytes) + 1 + (15 + CtimeBytes)
         + 1 + (13 + FilemodeBytes) + 1 + (7 + Digits(owner))

\* the fragment with the metadata filtered by the options in every format
fragment_bytes_filtered_everywhere(output_format, relative_path, a, c) ==
    LET meta == metadata_bytes(c.no_metadata, a.size, a.owner)
        markdown == 2 * Len(c.start_marker) + 2 * Len(c.end_marker)
                    + 2 * Len(relative_path) + 10 + meta + a.content
    IN  IF output_format = "markdown" THEN markdown
        ELSE IF output_format = "html"
             THEN Len(relative_path) + a.content + 24 + meta
        ELSE IF output_format = "json"
             THEN 45 + Len(relative_path) + meta + a.content
        ELSE markdown

\* len(file_content.encode('utf-8')) for a text without characters that
\* html.escape or json.dumps would lengthen
fragment_bytes(output_format, relative_path, a, c) ==
    LET markdown == 2 * Len(c.start_marker) + 2 * Len(c.end_marker)
                    + 2 * Len(relative_path) + 10
                    + metadata_bytes(c.no_metadata, a.size, a.owner) + a.content
    IN  IF output_format = "markdown" THEN markdown
        ELSE IF output_format = "html" THEN Len(relative_path) + a.content + 24
        ELSE IF output_format = "json"
             THEN 131 + 2 * CtimeBytes + FilemodeBytes + Len(relative_path)
                  + (Digits(a.size) + 6) + Digits(a.owner) + a.content
        ELSE markdown

\* os.path.getsize
RECURSIVE getsize(_)
getsize(blocks) ==
    IF blocks = <<>> THEN 0 ELSE Head(blocks).bytes + getsize(Tail(blocks))

Block(kind, id, bytes) == [kind |-> kind, id |-> id, bytes |-> bytes]

\* json.load succeeds on a file that holds exactly one document
json_loads(blocks) ==
    Len(blocks) = 1 /\ blocks[1].kind \in {"header", "header_tree", "tree_only"}

-----------------------------------------------------------------------------
(* Inputs *)

a_py == <<"a", ".", "p", "y">>
b_log == <<"b", ".", "l", "o", "g">>
c_bin == <<"c", ".", "b", "i", "n">>
d_py == <<"d", ".", "p", "y">>
nm == <<"n", "m">>
f1_txt == <<"f", "1", ".", "t", "x", "t">>
f2_txt == <<"f", "2", ".", "t", "x", "t">>
f3_txt == <<"f", "3", ".", "t", "x", "t">>
e_txt == <<"e", ".", "t", "x", "t">>
g_py == <<"g", ".", "p", "y">>
sub == <<"s">>
t_dir == <<"t">>
star_log == <<"*", ".", "l", "o", "g">>
ext_py == <<".", "p", "y">>
ext_log == <<".", "l", "o", "g">>
path_r_s == <<"r", "/", "s">>
star_slash_t == <<"*", "/", "t">>
q_py == <<"?", ".", "p", "y">>
e_star == <<"e", "*">>
d_star == <<"d", "*">>

Root == <<"r">>

Dir(dirs, files) == [dirs |-> dirs, files |-> files]
\* a file of the scanned directory; its text is one line of four-letter words
File(size, binary) ==
    [size |-> size, binary |-> binary, owner |-> 1000, content |-> size,
     words |-> size \div 5, open_error |-> "none"]

\* a directory that does not exist
FsMissing == [exists |-> FALSE, ls |-> <<>>, attr |-> <<>>]

\* an empty directory
FsEmpty == [exists |-> TRUE, ls |-> (Root :> Dir(<<>>, <<>>)), attr |-> <<>>]

\* r/{a.py, b.log, c.bin (binary), nm/{d.py}}
FsProject ==
    [exists |-> TRUE,
     ls |-> (Root :> Dir(<<nm>>, <<a_py, b_log, c_bin>>))
            @@ (join(Root, nm) :> Dir(<<>>, <<d_py>>)),
     attr |-> (join(Root, a_py) :> File(100, FALSE))
              @@ (join(Root, b_log) :> File(300, FALSE))
              @@ (join(Root, c_bin) :> File(50, TRUE))
              @@ (join(join(Root, nm), d_py) :> File(200, FALSE))]

\* the same directory with a.py not to be opened by the user of the run
FsUnopenable ==
    [FsProject EXCEPT !.attr[join(Root, a_py)].open_error = "PermissionError"]

\* r/{a.py, b.log, c.bin (binary), nm/{d.py, t/{g.py}}, s/{e.txt}}
FsNested ==
    [exists |-> TRUE,
     ls |-> (Root :> Dir(<<nm, sub>>, <<a_py, b_log, c_bin>>))
            @@ (join(Root, nm) :> Dir(<<t_dir>>, <<d_py>>))
            @@ (join(join(Root, nm), t_dir) :> Dir(<<>>, <<g_py>>))
            @@ (join(Root, sub) :> Dir(<<>>, <<e_txt>>)),
     attr |-> (join(Root, a_py) :> File(100, FALSE))
              @@ (join(Root, b_log) :> File(300, FALSE))
              @@ (join(Root, c_bin) :> File(50, TRUE))
              @@ (join(join(Root, nm), d_py) :> File(200, FALSE))
              @@ (join(join(join(Root, nm), t_dir), g_py) :> File(150, FALSE))
              @@ (join(join(Root, sub), e_txt) :> File(120, FALSE))]

\* three text files of 2000, 500 and 500 bytes
FsScenario ==
    [exists |-> TRUE,
     ls |-> (Root :> Dir(<<>>, <<f1_txt, f2_txt, f3_txt>>)),
     attr |-> (join(Root, f1_txt) :> File(2000, FALSE))
              @@ (join(Root, f2_txt) :> File(500, FALSE))
              @@ (join(Root, f3_txt) :> File(500, FALSE))]

\* the default markers of the command line
DefaultStartMarker == <<"=", "=", "=", " ", "S", "t", "a", "r", "t", " ", "o", "f">>
DefaultEndMarker == <<"=", "=", "=", " ", "E", "n", "d", " ", "o", "f">>

Formats == {"markdown", "html", "json", "text"}

\* the arguments of one call of compile_project_files
Config(fmt, limit, nometa, ign, xdirs, xfiles, iext, xext, pinc, pexc) ==
    [dir_path |-> Root,
     output_format |-> fmt,
     include_extensions |-> iext,
     exclude_extensions |-> xext,
     exclude_dirs |-> xdirs,
     exclude_files |-> xfiles,
     pattern_include |-> pinc,
     pattern_exclude |-> pexc,
     ignore_patterns |-> ign,
     start_marker |-> DefaultStartMarker,
     end_marker |-> DefaultEndMarker,
     no_metadata |-> nometa,
     limit_size |-> limit]

\* what the environment does to the run: nothing, or one failure, named by the
\* operation it hits, the exception it raises there and the task it hits
\* (0 for an operation of compile_project_files itself)
Fault(op, error, at) == [op |-> op, error |-> error, at |-> at]

NoFault == Fault("none", "none", 0)

\* tasks a failure may hit
FaultTasks == {1, 2}

Faults ==
    {NoFault,
     Fault("generate_tree", "TypeError", 0),
     Fault("collect", "TypeError", 0),
     Fault("aggregate", "OSError", 0)}
    \cup {Fault(op, "FileNotFoundError", w) :
            op \in {"stat", "write_explanation", "write_tree"}, w \in FaultTasks}
    \cup {Fault(op, "OSError", w) :
            op \in {"write_explanation", "write_tree"}, w \in FaultTasks}
    \cup {Fault("read", "PermissionError", w) : w \in FaultTasks}

hits(op, w) == fault.op = op /\ fault.at = w

\* what the output location may hold before the run
OldFile(bytes) == <<Block("old", 0, bytes)>>
InitialDisks ==
    {<<>>, (1 :> OldFile(100)), (1 :> OldFile(5000)), (2 :> OldFile(100))}

LimitSizes == {-1, 0, 400, 1000, 1100, 1500}

InitRest ==
    /\ orch = "start"
    /\ file_counter = [count |-> 1, first_file |-> TRUE, tree |-> <<>>]
    /\ file_list = <<>>
    /\ pc = <<>>
    /\ file_content = <<>>
    /\ cur = <<>>
    /\ current_size = <<>>
    /\ write_lock = 0
    /\ total_size = 0
    /\ total_tokens = 0
    /\ files_processed = 0

\* compile_project_files or the analyzer called without the command line
NoCli == [pc |-> "off"]

\* no SmartFileProcessor has been constructed
InitNoProcessor ==
    /\ codebase = <<>>
    /\ sfp = [pc |-> "none"]
    /\ cli = NoCli

Init ==
    /\ fs \in {FsMissing, FsEmpty, FsProject}
    /\ \E output_format \in Formats, limit_size \in LimitSizes,
          no_metadata \in BOOLEAN,
          ignore_patterns \in {<<>>, <<star_log>>},
          exclude_dirs \in {<<>>, <<nm>>} :
          cfg = Config(output_format, limit_size, no_metadata, ignore_patterns,
                       exclude_dirs, <<>>, <<>>, <<>>, <<>>, <<>>)
    /\ disk \in InitialDisks
    /\ fault = NoFault
    /\ InitRest
    /\ InitNoProcessor

\* runs with no limit, with a limit every fragment fits under behind a
\* header, and with limits under which some fragment does not
InitFair ==
    /\ fs \in {FsMissing, FsEmpty, FsProject}
    /\ \E output_format \in {"markdown", "json"},
          limit_size \in {-1, 0, 1000, 1100} :
          cfg = Config(output_format, limit_size, TRUE, <<>>, <<>>, <<>>, <<>>,
                       <<>>, <<>>, <<>>)
    /\ disk \in {<<>>, (1 :> OldFile(100)), (2 :> OldFile(100))}
    /\ fault = NoFault
    /\ InitRest
    /\ InitNoProcessor

\* every combination of the filter arguments over a nested directory
InitFilter ==
    /\ fs \in {FsMissing, FsNested}
    /\ \E limit_size \in {0, 1000},
          ignore_patterns \in {<<>>, <<star_log>>, <<path_r_s>>,
                               <<star_slash_t, star_log>>},
          exclude_dirs \in {<<>>, <<nm>>, <<t_dir>>},
          exclude_files \in {<<>>, <<a_py>>},
          include_extensions \in {<<>>, <<ext_py, ext_log>>},
          exclude_extensions \in {<<>>, <<ext_log>>, <<ext_py>>},
          pattern_include \in {<<>>, <<q_py, e_star>>},
          pattern_exclude \in {<<>>, <<d_star>>} :
          cfg = Config("markdown", limit_size, TRUE, ignore_patterns,
                       exclude_dirs, exclude_files, include_extensions,
                       exclude_extensions, pattern_include, pattern_exclude)
    /\ disk = <<>>
    /\ fault = NoFault
    /\ InitRest
    /\ InitNoProcessor

\* the rollover scenario: three text files, structured text, limit 2200
\* (and a limit under which the run fits two files)
InitScenario ==
    /\ fs \in {FsMissing, FsScenario}
    /\ \E limit_size \in {2200, 4000}, no_metadata \in BOOLEAN :
          cfg = Config("markdown", limit_size, no_metadata, <<>>, <<>>, <<>>,
                       <<>>, <<>>, <<>>, <<>>)
    /\ disk = <<>>
    /\ fault = NoFault
    /\ InitRest
    /\ InitNoProcessor

\* one failure of the environment during a run over the project directory
InitFault ==
    /\ fs \in {FsMissing, FsProject, FsUnopenable}
    /\ \E output_format \in {"markdown", "json"}, limit_size \in {0, 1000},
          exclude_dirs \in {<<>>, <<nm>>} :
          cfg = Config(output_format, limit_size, TRUE, <<>>, exclude_dirs,
                       <<>>, <<>>, <<>>, <<>>, <<>>)
    /\ disk \in {<<>>, (1 :> OldFile(100))}
    /\ fault \in Faults
    /\ InitRest
    /\ InitNoProcessor

-----------------------------------------------------------------------------
(* compile_project_files *)

Tasks == 1..Len(file_list)

\* the check left out: every path is taken for a directory
isdir_unchecked(f) == TRUE

\* if not os.path.isdir(dir_path)
isdir(f) == f.exists

\* if not os.path.isdir(dir_path): sys.exit(1)
CheckDir ==
    /\ orch = "start"
    /\ orch' = IF isdir(fs) THEN "tree" ELSE "exit"
    /\ UNCHANGED <<cli, codebase, sfp, fault, files_processed, fs, cfg, file_counter, file_list, pc,
                   file_content, cur, current_size, write_lock, disk, total_size,
                   total_tokens>>

\* a handler that names a narrower class
except_OSError(error) == "OSError" \in Bases(error)

\* except Exception as e:
except_Exception(error) == "Exception" \in Bases(error)

\* where compile_project_files is after an exception left the try block:
\* "error" once the handler has logged and reported it, "raised" when no
\* handler matched and the exception reached the caller
handler(error) == IF except_Exception(error) THEN "error" ELSE "raised"

\* tree = generate_tree(...); file_counter = {'count': 1, 'first_file': True, 'tree': tree}
GenerateTree ==
    /\ orch = "tree"
    /\ IF hits("generate_tree", 0)
       THEN /\ orch' = handler(fault.error)
            /\ UNCHANGED file_counter
       ELSE /\ file_counter' =
                 [count |-> 1, first_file |-> TRUE,
                  tree |-> generate_tree(cfg.dir_path, cfg.ignore_patterns, fs.ls)]
            /\ orch' = "collect"
    /\ UNCHANGED <<cli, codebase, sfp, fault, files_processed, fs, cfg, file_list, pc, file_content,
                   cur, current_size, write_lock, disk, total_size,
                   total_tokens>>

\* the walk that fills file_list, then executor.map submits one task per entry
CollectFiles ==
    /\ orch = "collect"
    /\ IF hits("collect", 0)
       THEN /\ orch' = handler(fault.error)
            /\ UNCHANGED <<file_list, pc, file_content, cur, current_size>>
       ELSE IF collect_error(cfg, fs) # "none"
       THEN /\ orch' = handler(collect_error(cfg, fs))
            /\ UNCHANGED <<file_list, pc, file_content, cur, current_size>>
       ELSE /\ LET files == collect_files(cfg, fs)
               IN  /\ file_list' = files
                   /\ pc' = [w \in 1..Len(files) |-> "queued"]
                   /\ file_content' = [w \in 1..Len(files) |-> 0]
                   /\ cur' = [w \in 1..Len(files) |-> 0]
                   /\ current_size' = [w \in 1..Len(files) |-> 0]
            /\ orch' = "pool"
    /\ UNCHANGED <<cli, codebase, sfp, fault, files_processed, fs, cfg, file_counter, write_lock,
                   disk, total_size,
                   total_tokens>>

\* a task counts as finished as soon as a thread has taken it
task_finished_when_started(w) == pc[w] # "queued"

\* the future of the task is done: it returned, raised or was cancelled
task_finished(w) == pc[w] \in {"done", "failed", "cancelled"}

\* the futures the result iterator cancels when it is closed by an exception:
\* it walks the pending futures from the last submitted one, while the threads
\* of the pool go on taking the oldest queued items
cancelled_from(k, p) ==
    [w \in DOMAIN p |-> IF w >= k /\ p[w] = "queued" THEN "cancelled" ELSE p[w]]

\* for _ in executor.map(process_file_wrapper, file_list): files_processed += 1
\* the next result in submission order is awaited; the exception of a task is
\* raised here and leaves the loop
ConsumeResult ==
    /\ orch = "pool"
    /\ files_processed < Len(file_list)
    /\ LET w == files_processed + 1
       IN  /\ task_finished(w)
           /\ IF pc[w] = "failed"
              THEN /\ orch' = "unwind"
                   /\ \E k \in (w + 1)..(Len(file_list) + 1) :
                        pc' = cancelled_from(k, pc)
                   /\ UNCHANGED files_processed
              ELSE /\ files_processed' = files_processed + 1
                   /\ UNCHANGED <<orch, pc>>
    /\ UNCHANGED <<cli, codebase, sfp, fault, fs, cfg, file_counter, file_list,
                   file_content, cur, current_size, write_lock, disk, total_size,
                   total_tokens>>

\* leaving the with block: shutdown(wait=True) returns when every task has
\* finished; an exception on its way out then reaches the handler
ExitPool ==
    /\ \/ orch = "pool" /\ files_processed = Len(file_list)
       \/ orch = "unwind"
    /\ \A w \in Tasks : task_finished(w)
    /\ orch' = IF orch = "unwind" THEN handler(fault.error) ELSE "aggregate"
    /\ UNCHANGED <<cli, codebase, sfp, fault, files_processed, fs, cfg, file_counter, file_list, pc,
                   file_content, cur, current_size, write_lock, disk, total_size,
                   total_tokens>>

\* output_files for i in range(1, count + 1); the sizes of those that exist
RECURSIVE sum_sizes(_, _)
sum_sizes(i, d) ==
    IF i = 0 THEN 0
    ELSE (IF i \in DOMAIN d THEN getsize(d[i]) ELSE 0) + sum_sizes(i - 1, d)

\* len(s.split()) for a string without tabs and newlines
RECURSIVE word_count(_)
word_count(s) ==
    IF s = <<>> THEN 0
    ELSE IF Head(s) = " " THEN word_count(Tail(s))
    ELSE IF Len(s) = 1 \/ s[2] = " " THEN 1 + word_count(Tail(s))
    ELSE word_count(Tail(s))

\* words of the explanation texts of write_explanation, the markers left out
MarkdownExplanationWords == 97
HtmlExplanationWords == 93
JsonExplanationWords == 78

\* words of time.ctime(...)
CtimeWords == 5

\* words of 'Could not read file: [Errno 13] Permission denied: <path>'
PlaceholderWords == 9

Text(words, lead, trail) == [words |-> words, lead |-> lead, trail |-> trail]

explanation_words(output_format, start_marker, end_marker) ==
    (IF output_format = "markdown" THEN MarkdownExplanationWords
     ELSE IF output_format = "html" THEN HtmlExplanationWords
     ELSE JsonExplanationWords)
    + 2 * word_count(start_marker) + 2 * word_count(end_marker)

\* the tree lines as items of the indented JSON list: an item is one word,
\* and a line that begins with spaces leaves the opening quote on its own
RECURSIVE json_lines_words(_)
json_lines_words(tree) ==
    IF tree = <<>> THEN 0
    ELSE (IF Head(Head(tree)) = " " THEN 2 ELSE 1) + json_lines_words(Tail(tree))

\* words of the metadata lines of the structured-text fragment
metadata_words(no_metadata) ==
    IF no_metadata THEN 0 ELSE 4 + (2 + CtimeWords) + (2 + CtimeWords) + 2 + 2

\* words of the fragment of a file
fragment_words(output_format, relative_path, c, content_words) ==
    LET markdown == 2 * word_count(c.start_marker) + 2 * word_count(c.end_marker)
                    + 2 * word_count(relative_path)
                    + metadata_words(c.no_metadata) + content_words
    IN  IF output_format = "markdown" THEN markdown
        ELSE IF output_format = "html" THEN word_count(relative_path) + 2 + content_words
        ELSE IF output_format = "json"
             THEN 15 + word_count(relative_path) + 2 * CtimeWords + content_words
        ELSE markdown

\* what content.split() sees of a block of an output file: its words, and
\* whether it begins and ends with whitespace
block_text(b) ==
    LET json == cfg.output_format = "json"
    IN  IF b.kind = "header"
        THEN Text(explanation_words(cfg.output_format, cfg.start_marker,
                                    cfg.end_marker), ~json, ~json)
        ELSE IF b.kind = "header_tree"
        THEN Text(explanation_words(cfg.output_format, cfg.start_marker,
                                    cfg.end_marker)
                  + 3 + json_lines_words(file_counter.tree), FALSE, FALSE)
        ELSE IF b.kind = "tree_only"
        THEN Text(5 + json_lines_words(file_counter.tree), FALSE, FALSE)
        ELSE IF b.kind = "tree"
        THEN Text((IF cfg.output_format = "markdown" THEN 9 ELSE 8)
                  + Len(file_counter.tree), FALSE, TRUE)
        ELSE IF b.kind = "frag"
        THEN Text(fragment_words(cfg.output_format,
                                 relpath(file_list[b.id], cfg.dir_path), cfg,
                                 IF hits("read", b.id) THEN PlaceholderWords
                                 ELSE fs.attr[file_list[b.id]].words),
                  cfg.output_format \notin {"html", "json"}, TRUE)
        ELSE Text(b.bytes \div 5, FALSE, TRUE)

\* len(content.split()) of a file: two blocks that meet without whitespace
\* share a word
RECURSIVE count_tokens_in_file(_)
count_tokens_in_file(blocks) ==
    IF blocks = <<>> THEN 0
    ELSE block_text(Head(blocks)).words
         - (IF Len(blocks) >= 2 /\ ~block_text(blocks[1]).trail
                                /\ ~block_text(blocks[2]).lead
            THEN 1 ELSE 0)
         + count_tokens_in_file(Tail(blocks))

\* total_tokens += count_tokens_in_file(output_file) for the files that exist
RECURSIVE sum_tokens(_, _)
sum_tokens(i, d) ==
    IF i = 0 THEN 0
    ELSE (IF i \in DOMAIN d THEN count_tokens_in_file(d[i]) ELSE 0)
         + sum_tokens(i - 1, d)

\* the totals over the output files, printed at the end of the try block
Aggregate ==
    /\ orch = "aggregate"
    /\ IF hits("aggregate", 0)
       THEN /\ orch' = handler(fault.error)
            /\ UNCHANGED <<total_size, total_tokens>>
       ELSE /\ total_size' = sum_sizes(file_counter.count, disk)
            /\ total_tokens' = sum_tokens(file_counter.count, disk)
            /\ orch' = "done"
    /\ UNCHANGED <<cli, codebase, sfp, fault, files_processed, fs, cfg, file_counter,
                   file_list, pc, file_content, cur, current_size, write_lock, disk>>

-----------------------------------------------------------------------------
(* process_file, one task of the pool *)

Active == {w \in Tasks : pc[w] \notin {"queued", "done", "failed", "cancelled"}}

\* a free thread of the pool takes the oldest queued work item
StartTask(w) ==
    /\ orch \in {"pool", "unwind"}
    /\ pc[w] = "queued"
    /\ \A v \in Tasks : v < w => pc[v] # "queued"
    /\ Cardinality(Active) < MaxWorkers
    /\ pc' = [pc EXCEPT ![w] = "render"]
    /\ UNCHANGED <<cli, codebase, sfp, fault, files_processed,
                   fs, cfg, orch, file_counter, file_list,
                   file_content, cur, current_size, write_lock, disk, total_size,
                   total_tokens>>

\* len('Could not read file: ') + len("[Errno 13] Permission denied: ") + len(repr(file_path))
PlaceholderBytes == 53

\* len(content): the decoded file, or the placeholder when reading it failed
read_file_content(file_path, decoded, unreadable) ==
    IF unreadable THEN PlaceholderBytes + Len(file_path) ELSE decoded

\* content = read_file_content(file_path); stats = os.stat(file_path);
\* build file_content for the format.  os.stat is outside any try: on a file
\* that is gone the task raises before it asks for the lock
Render(w) ==
    /\ pc[w] = "render"
    /\ IF hits("stat", w)
       THEN /\ pc' = [pc EXCEPT ![w] = "failed"]
            /\ UNCHANGED file_content
       ELSE /\ file_content' =
                 [file_content EXCEPT ![w] =
                    fragment_bytes(cfg.output_format,
                                   relpath(file_list[w], cfg.dir_path),
                                   [fs.attr[file_list[w]] EXCEPT !.content =
                                      read_file_content(file_list[w], @,
                                                        hits("read", w))],
                                   cfg)]
            /\ pc' = [pc EXCEPT ![w] = "wait"]
    /\ UNCHANGED <<cli, codebase, sfp, fault, files_processed,
                   fs, cfg, orch, file_counter, file_list,
                   cur, current_size, write_lock, disk, total_size,
                   total_tokens>>

\* a lock created by each call of process_file: no other task ever holds it
LockFree_lock_per_task(w) == write_lock # w

\* entering without waiting for the lock
LockFree_unguarded(w) == TRUE

\* with write_lock:
LockFree(w) == write_lock = 0

Acquire(w) ==
    /\ pc[w] = "wait"
    /\ LockFree(w)
    /\ write_lock' = w
    /\ pc' = [pc EXCEPT ![w] = "name"]
    /\ UNCHANGED <<cli, codebase, sfp, fault, files_processed,
                   fs, cfg, orch, file_counter, file_list, file_content, cur,
                   current_size, disk, total_size,
                   total_tokens>>

\* the name built from the index before the last advance
current_output_file_lagging(fc) == IF fc.count > 1 THEN fc.count - 1 ELSE 1

\* the index in the name f"{base}_{file_counter['count']}{ext}"
current_output_file(fc) == fc.count

\* current_output_file = f"{base}_{file_counter['count']}{ext}"
ComputeName(w) ==
    /\ pc[w] = "name"
    /\ cur' = [cur EXCEPT ![w] = current_output_file(file_counter)]
    /\ pc' = [pc EXCEPT ![w] = "exists"]
    /\ UNCHANGED <<cli, codebase, sfp, fault, files_processed,
                   fs, cfg, orch, file_counter, file_list, file_content,
                   current_size, write_lock, disk, total_size,
                   total_tokens>>

\* the check left out: every file is taken for a new one
exists_unchecked(d, n) == FALSE

\* os.path.exists(current_output_file)
exists(d, n) == n \in DOMAIN d

\* if not os.path.exists(current_output_file):
CheckExists(w) ==
    /\ pc[w] = "exists"
    /\ pc' = [pc EXCEPT ![w] = IF exists(disk, cur[w]) THEN "size" ELSE "explain"]
    /\ UNCHANGED <<cli, codebase, sfp, fault, files_processed,
                   fs, cfg, orch, file_counter, file_list, file_content, cur,
                   current_size, write_lock, disk, total_size,
                   total_tokens>>

\* the content of a file after write_explanation: opened with 'w'
explanation_blocks(output_format, start_marker, end_marker) ==
    IF output_format \in {"markdown", "html", "json"}
    THEN <<Block("header", 0,
                 explanation_bytes(output_format, start_marker, end_marker))>>
    ELSE <<>>

\* an exception leaves process_file: the with statement releases the lock
\* when the task holds it, and the future of the task holds the exception
raise(w, p, lock) ==
    /\ pc' = [p EXCEPT ![w] = "failed"]
    /\ write_lock' = IF lock = w THEN 0 ELSE lock

\* except FileNotFoundError: current_size = 0
except_FileNotFoundError(error) == "FileNotFoundError" \in Bases(error)

\* a failure between os.path.exists and os.path.getsize: FileNotFoundError goes
\* to the except clause of the loop, anything else leaves the task
write_failed(w) ==
    IF except_FileNotFoundError(fault.error)
    THEN /\ current_size' = [current_size EXCEPT ![w] = 0]
         /\ pc' = [pc EXCEPT ![w] = "decide"]
         /\ UNCHANGED write_lock
    ELSE /\ raise(w, pc, write_lock)
         /\ UNCHANGED current_size

\* write_explanation(...); if file_counter['first_file']:
WriteExplanation(w) ==
    /\ pc[w] = "explain"
    /\ IF hits("write_explanation", w)
       THEN /\ write_failed(w)
            /\ UNCHANGED disk
       ELSE /\ disk' = (cur[w] :> explanation_blocks(cfg.output_format,
                                                     cfg.start_marker,
                                                     cfg.end_marker)) @@ disk
            /\ pc' = [pc EXCEPT ![w] =
                        IF file_counter.first_file THEN "tree" ELSE "size"]
            /\ UNCHANGED <<current_size, write_lock>>
    /\ UNCHANGED <<cli, codebase, sfp, fault, files_processed,
                   fs, cfg, orch, file_counter, file_list,
                   file_content, cur, total_size,
                   total_tokens>>

\* the content of a file after write_tree_to_output
tree_blocks(blocks, tree, output_format) ==
    IF output_format \in {"markdown", "html"}
    THEN Append(blocks, Block("tree", 0, tree_bytes(output_format, tree)))
    ELSE IF output_format = "json"
    THEN IF json_loads(blocks)
         THEN <<Block("header_tree", 0,
                      blocks[1].bytes + tree_bytes(output_format, tree))>>
         ELSE <<Block("tree_only", 0, tree_only_bytes(tree))>>
    ELSE blocks

\* write_tree_to_output(current_output_file, file_counter['tree'], output_format)
WriteTree(w) ==
    /\ pc[w] = "tree"
    /\ cur[w] \in DOMAIN disk
    /\ IF hits("write_tree", w)
       THEN /\ write_failed(w)
            /\ UNCHANGED disk
       ELSE /\ disk' = [disk EXCEPT ![cur[w]] =
                          tree_blocks(disk[cur[w]], file_counter.tree,
                                      cfg.output_format)]
            /\ pc' = [pc EXCEPT ![w] = "flag"]
            /\ UNCHANGED <<current_size, write_lock>>
    /\ UNCHANGED <<cli, codebase, sfp, fault, files_processed,
                   fs, cfg, orch, file_counter, file_list,
                   file_content, cur, total_size,
                   total_tokens>>

\* the assignment left out: the flag stays as it was
clear_first_file_kept(fc) == fc

\* the shared state replaced by a new one that drops the tree
clear_first_file_rebuilt(fc) ==
    [count |-> fc.count, first_file |-> FALSE, tree |-> <<>>]

\* the shared state after the assignment: one key is updated in place
clear_first_file(fc) ==
    [fc EXCEPT !.first_file = FALSE]

\* file_counter['first_file'] = False
ClearFirst(w) ==
    /\ pc[w] = "flag"
    /\ file_counter' = clear_first_file(file_counter)
    /\ pc' = [pc EXCEPT ![w] = "size"]
    /\ UNCHANGED <<cli, codebase, sfp, fault, files_processed,
                   fs, cfg, orch, file_list, file_content, cur, current_size,
                   write_lock, disk, total_size,
                   total_tokens>>

\* current_size = os.path.getsize(current_output_file)
\* (except FileNotFoundError: current_size = 0)
GetSize(w) ==
    /\ pc[w] = "size"
    /\ current_size' = [current_size EXCEPT ![w] =
                          IF cur[w] \in DOMAIN disk THEN getsize(disk[cur[w]]) ELSE 0]
    /\ pc' = [pc EXCEPT ![w] = "decide"]
    /\ UNCHANGED <<cli, codebase, sfp, fault, files_processed,
                   fs, cfg, orch, file_counter, file_list, file_content, cur,
                   write_lock, disk, total_size,
                   total_tokens>>

\* the check with a limit of 0 taken as a limit of no bytes
exceeds_limit_zero_limits(limit_size, size, fragment) ==
    size + fragment > limit_size

\* the check with the size of the target file left out
exceeds_limit_fragment_only(limit_size, size, fragment) ==
    limit_size # 0 /\ fragment > limit_size

\* limit_size and (current_size + len(file_content.encode('utf-8')) > limit_size)
exceeds_limit(limit_size, size, fragment) ==
    limit_size # 0 /\ size + fragment > limit_size

\* the increment left out: the loop tries the same file again
next_file_stays(fc) == fc

\* the index going back to 1 after file 2
next_file_wraps(fc) == [fc EXCEPT !.count = IF @ >= 2 THEN 1 ELSE @ + 1]

\* the shared state after file_counter['count'] += 1
next_file(fc) == [fc EXCEPT !.count = @ + 1]

\* file_counter['count'] += 1; continue
Rollover(w) ==
    /\ pc[w] = "decide"
    /\ exceeds_limit(cfg.limit_size, current_size[w], file_content[w])
    /\ file_counter.count < MaxCount
    /\ file_counter' = next_file(file_counter)
    /\ pc' = [pc EXCEPT ![w] = "name"]
    /\ UNCHANGED <<cli, codebase, sfp, fault, files_processed,
                   fs, cfg, orch, file_list, file_content, cur, current_size,
                   write_lock, disk, total_size,
                   total_tokens>>

\* the fragment written with mode 'w' instead of 'a'
append_blocks_truncating(d, n, w, bytes) ==
    (n :> <<Block("frag", w, bytes)>>) @@ d

\* the content of a file after open(..., 'a') and write(file_content)
append_blocks(d, n, w, bytes) ==
    IF n \in DOMAIN d
    THEN [d EXCEPT ![n] = Append(@, Block("frag", w, bytes))]
    ELSE (n :> <<Block("frag", w, bytes)>>) @@ d

\* with open(current_output_file, 'a') as output_file: output_file.write(file_content)
AppendFragment(w) ==
    /\ pc[w] = "decide"
    /\ ~exceeds_limit(cfg.limit_size, current_size[w], file_content[w])
    /\ disk' = append_blocks(disk, cur[w], w, file_content[w])
    /\ pc' = [pc EXCEPT ![w] = "release"]
    /\ UNCHANGED <<cli, codebase, sfp, fault, files_processed,
                   fs, cfg, orch, file_counter, file_list, file_content, cur,
                   current_size, write_lock, total_size,
                   total_tokens>>

\* leaving the with block releases the lock; the task returns
Release(w) ==
    /\ pc[w] = "release"
    /\ write_lock' = 0
    /\ pc' = [pc EXCEPT ![w] = "done"]
    /\ UNCHANGED <<cli, codebase, sfp, fault, files_processed,
                   fs, cfg, orch, file_counter, file_list, file_content, cur,
                   current_size, disk, total_size,
                   total_tokens>>

Next ==
    \/ CheckDir
    \/ GenerateTree
    \/ CollectFiles
    \/ ConsumeResult
    \/ ExitPool
    \/ Aggregate
    \/ \E w \in Tasks : StartTask(w)
    \/ \E w \in Tasks : Render(w)
    \/ \E w \in Tasks : Acquire(w)
    \/ \E w \in Tasks : ComputeName(w)
    \/ \E w \in Tasks : CheckExists(w)
    \/ \E w \in Tasks : WriteExplanation(w)
    \/ \E w \in Tasks : WriteTree(w)
    \/ \E w \in Tasks : ClearFirst(w)
    \/ \E w \in Tasks : GetSize(w)
    \/ \E w \in Tasks : Rollover(w)
    \/ \E w \in Tasks : AppendFragment(w)
    \/ \E w \in Tasks : Release(w)

Spec == Init /\ [][Next]_vars

\* the threads of the pool and the main thread keep running: a step that
\* can be taken is taken
SpecFair == InitFair /\ [][Next]_vars /\ WF_vars(Next)

SpecFilter == InitFilter /\ [][Next]_vars

SpecScenario == InitScenario /\ [][Next]_vars

SpecFault == InitFault /\ [][Next]_vars

-----------------------------------------------------------------------------
(* SmartFileProcessor (src/smart_processor.py), run on its own by main() *)

\* most files a codebase of the model holds
MaxFiles == 3

\* what estimate_tokens looks at in the text of a file: the whitespace-
\* separated words and the characters that are neither alphanumeric nor space
Content(words, special_chars) == [words |-> words, special_chars |-> special_chars]

Contents == {Content(0, 0), Content(2, 3), Content(4, 5)}

Sizes == {10, 20}

TokenLimits == {0, 4, 6}

\* a file of the codebase as the analyzer finds it: "ok" is a Python file that
\* parses, "syntax_error" one that ast.parse rejects, "undecodable" one that is
\* not UTF-8, "unopenable" one that open() refuses, "not_python" a readable
\* file of another recognized extension
Statuses == {"ok", "syntax_error", "undecodable", "unopenable", "not_python"}

SourceFile(path, size, content, status) ==
    [relative_path |-> path, size |-> size, content |-> content, status |-> status]

\* codebases of up to MaxFiles files; the first file found may be one that is
\* not "ok" (its size decides where the sort puts it)
Codebases ==
    UNION {{[i \in 1..n |-> SourceFile(i, f[i].size, f[i].content,
                                        IF i = bad THEN st ELSE "ok")] :
              f \in [1..n -> [size : Sizes, content : Contents]],
              bad \in {0, 1}, st \in Statuses} :
           n \in 0..MaxFiles}

\* SmartFileProcessor.__init__: a fresh processor, process() not yet begun
SmartFileProcessor(token_limit, files) ==
    [pc |-> "analyze",
     token_limit |-> token_limit,
     results |-> [i \in DOMAIN files |-> <<>>],
     file_metadata |-> <<>>,
     sorted_files |-> <<>>,
     current_chunk |-> <<>>,
     current_tokens |-> 0,
     chunks |-> <<>>,
     documents |-> <<>>]

InitChunks ==
    /\ codebase \in Codebases
    /\ \E token_limit \in TokenLimits :
          sfp = SmartFileProcessor(token_limit, codebase)
    /\ cli = NoCli
    /\ fs = FsMissing
    /\ cfg = Config("markdown", 0, FALSE, <<>>, <<>>, <<>>, <<>>, <<>>, <<>>, <<>>)
    /\ disk = <<>>
    /\ fault = NoFault
    /\ InitRest

\* the three collections kept in the analyzer that all workers share: a
\* worker returns what the workers before it have found together with its own
analyze_file_shared(f) ==
    LET found == {j \in DOMAIN sfp.results :
                    sfp.results[j] # <<>> /\ sfp.results[j].classes # <<>>}
        n == Cardinality(found) + (IF f.status = "ok" THEN 1 ELSE 0)
    IN  [imports |-> [k \in 1..n |-> "os"],
         classes |-> [k \in 1..n |-> "A"],
         functions |-> [k \in 1..n |-> "f"]]

\* DependencyAnalyzer.analyze_file: what the walk over the syntax tree finds,
\* or three empty collections when the file cannot be opened, decoded or parsed
analyze_file(f) ==
    IF f.status = "ok"
    THEN [imports |-> <<"os">>, classes |-> <<"A">>, functions |-> <<"f">>]
    ELSE [imports |-> <<>>, classes |-> <<>>, functions |-> <<>>]

\* the record process_file (nested in analyze_codebase) returns for a file
process_file(f) ==
    LET extension == IF f.status = "not_python" THEN ".md" ELSE ".py"
        found == IF extension = ".py"
                 THEN analyze_file(f)
                 ELSE [imports |-> <<>>, classes |-> <<>>, functions |-> <<>>]
    IN  [file_path |-> f.relative_path,
         size |-> f.size,
         relative_path |-> f.relative_path,
         extension |-> extension,
         imports |-> found.imports,
         classes |-> found.classes,
         functions |-> found.functions]

\* one task of executor.map(lambda f: process_file(f), files): the tasks share
\* nothing and finish in any order
AnalyzeFile(i) ==
    /\ sfp.pc = "analyze"
    /\ sfp.results[i] = <<>>
    /\ sfp' = [sfp EXCEPT !.results[i] = process_file(codebase[i])]
    /\ UNCHANGED <<cli, codebase, compile_vars>>

\* results = list(executor.map(...)); for file_path, metadata in results:
\* self.file_metadata[str(file_path)] = metadata (a dict keeps insertion order)
StoreResults ==
    /\ sfp.pc = "analyze"
    /\ \A i \in DOMAIN codebase : sfp.results[i] # <<>>
    /\ sfp' = [sfp EXCEPT !.file_metadata = sfp.results, !.pc = "split"]
    /\ UNCHANGED <<cli, codebase, compile_vars>>

\* sorted() is stable: an entry goes behind the entries that are not larger
RECURSIVE insert_by_size(_, _)
insert_by_size(x, s) ==
    IF s = <<>> THEN <<x>>
    ELSE IF Head(s).size <= x.size THEN <<Head(s)>> \o insert_by_size(x, Tail(s))
    ELSE <<x>> \o s

\* sorted(self.file_metadata.items(), key=lambda x: x[1]['size']), first n entries
RECURSIVE sorted_by_size(_, _)
sorted_by_size(metadata, n) ==
    IF n = 0 THEN <<>>
    ELSE insert_by_size(metadata[n], sorted_by_size(metadata, n - 1))

\* the files left in the order of discovery
sorted_files_unsorted(metadata) == metadata

\* sorted_files = sorted(self.file_metadata.items(), key=lambda x: x[1]['size'])
sorted_files_of(metadata) == sorted_by_size(metadata, Len(metadata))

\* len(words) + (special_chars // 2)
estimate_tokens(content) == content.words + (content.special_chars \div 2)

\* current_chunk = []; current_tokens = 0; sorted_files = sorted(...)
BeginSplit ==
    /\ sfp.pc = "split"
    /\ sfp' = [sfp EXCEPT !.sorted_files = sorted_files_of(sfp.file_metadata),
                           !.current_chunk = <<>>,
                           !.current_tokens = 0,
                           !.pc = "loop"]
    /\ UNCHANGED <<cli, codebase, compile_vars>>

\* a chunk sealed as soon as it holds a file with tokens
does_not_fit_after_any_file(current_tokens, tokens, token_limit) ==
    current_tokens > 0

\* the file is added whenever the chunk is still within the limit
does_not_fit_checks_chunk_only(current_tokens, tokens, token_limit) ==
    current_tokens > token_limit

\* if current_tokens + tokens > self.token_limit:
does_not_fit(current_tokens, tokens, token_limit) ==
    current_tokens + tokens > token_limit

\* the skip left out: a file of any size goes on to the chunks
exceeds_token_limit_never(tokens, token_limit) == FALSE

\* if tokens > self.token_limit: ... continue
exceeds_token_limit(tokens, token_limit) == tokens > token_limit

\* with open(file_path, 'r', encoding='utf-8') as f: content = f.read()
readable(f) == f.status \notin {"undecodable", "unopenable"}

\* one iteration of the loop of split_into_chunks.  The file is opened and
\* decoded outside any try: an exception leaves split_into_chunks, and
\* process() logs it and raises it again
SplitFile ==
    /\ sfp.pc = "loop"
    /\ sfp.sorted_files # <<>>
    /\ LET metadata == Head(sfp.sorted_files)
           f == codebase[metadata.file_path]
           tokens == estimate_tokens(f.content)
           entry == [relative_path |-> metadata.relative_path, content |-> f.content]
       IN  IF ~readable(f)
           THEN sfp' = [sfp EXCEPT !.pc = "raised"]
           ELSE IF exceeds_token_limit(tokens, sfp.token_limit)
           THEN sfp' = [sfp EXCEPT !.sorted_files = Tail(@)]
           ELSE IF does_not_fit(sfp.current_tokens, tokens, sfp.token_limit)
           THEN sfp' = [sfp EXCEPT !.sorted_files = Tail(@),
                                   !.chunks = Append(@, sfp.current_chunk),
                                   !.current_chunk = <<entry>>,
                                   !.current_tokens = tokens]
           ELSE sfp' = [sfp EXCEPT !.sorted_files = Tail(@),
                                   !.current_chunk = Append(@, entry),
                                   !.current_tokens = @ + tokens]
    /\ UNCHANGED <<cli, codebase, compile_vars>>

\* if current_chunk: self.chunks.append(current_chunk)
EndSplit ==
    /\ sfp.pc = "loop"
    /\ sfp.sorted_files = <<>>
    /\ sfp' = [sfp EXCEPT !.chunks = IF sfp.current_chunk # <<>>
                                     THEN Append(@, sfp.current_chunk) ELSE @,
                           !.pc = "generate"]
    /\ UNCHANGED <<cli, codebase, compile_vars>>

\* the files a chunk document has a section for
document(chunk) == [k \in 1..Len(chunk) |-> chunk[k].relative_path]

\* generate_output_files: one chunk_{i+1}.md per chunk
GenerateOutputFiles ==
    /\ sfp.pc = "generate"
    /\ sfp' = [sfp EXCEPT !.documents =
                             [i \in 1..Len(sfp.chunks) |-> document(sfp.chunks[i])],
                           !.pc = "done"]
    /\ UNCHANGED <<cli, codebase, compile_vars>>

NextChunks ==
    \/ \E i \in DOMAIN codebase : AnalyzeFile(i)
    \/ StoreResults
    \/ BeginSplit
    \/ SplitFile
    \/ EndSplit
    \/ GenerateOutputFiles

SpecChunks == InitChunks /\ [][NextChunks]_vars

-----------------------------------------------------------------------------
(* Project2TextCLI.process_files (src/cli.py) *)

\* the extensions analyze_codebase collects, in its order
Extensions ==
    <<ext_py, <<".", "j", "s">>, <<".", "t", "s">>, <<".", "j", "s", "x">>,
      <<".", "t", "s", "x">>, <<".", "c", "s", "s">>,
      <<".", "h", "t", "m", "l">>, <<".", "m", "d">>>>

\* every file below the directory, in walk order
all_files(f) ==
    LET opened == [p \in DOMAIN f.attr |->
                     [f.attr[p] EXCEPT !.binary = FALSE, !.open_error = "none"]]
    IN  IF f.exists
        THEN collect_walk(<<Root>>,
                          Config("markdown", 0, TRUE, <<>>, <<>>, <<>>, <<>>,
                                 <<>>, <<>>, <<>>),
                          [f EXCEPT !.attr = opened])
        ELSE <<>>

\* files.extend(self.codebase_path.rglob(f"*{ext}")) for each extension
RECURSIVE rglob(_, _)
rglob(f, exts) ==
    IF exts = <<>> THEN <<>>
    ELSE SelectSeq(all_files(f), LAMBDA p : endswith(p, Head(exts)))
         \o rglob(f, Tail(exts))

\* the files of the directory as the analyzer finds them: a file that
\* cannot be opened, one that is not text, or a Python file
discovered(f) ==
    LET files == rglob(f, Extensions)
    IN  [i \in 1..Len(files) |->
           SourceFile(i, f.attr[files[i]].size,
                      Content(f.attr[files[i]].words, 0),
                      IF f.attr[files[i]].open_error # "none" THEN "unopenable"
                      ELSE IF f.attr[files[i]].binary THEN "undecodable"
                      ELSE "ok")]

\* token limits of the environment: LLM_TOKEN_LIMIT_<NAME>, 4000 when unset
CliTokenLimits == {30, 4000}

\* what the constructor of SmartFileProcessor may raise: int() of a
\* malformed LLM_TOKEN_LIMIT_<NAME>, mkdir over an existing file
InitErrors == {"none", "ValueError", "FileExistsError"}

\* a run of the command line over the project directory
InitCli ==
    /\ fs \in {FsMissing, FsProject, FsUnopenable}
    /\ \E limit_size \in {0, 1000} :
          cfg = Config("markdown", limit_size, TRUE, <<>>, <<>>, <<>>, <<>>,
                       <<>>, <<>>, <<>>)
    /\ disk = <<>>
    /\ fault \in {NoFault, Fault("aggregate", "OSError", 0)}
    /\ InitRest
    /\ codebase = discovered(fs)
    /\ sfp = [pc |-> "none"]
    /\ \E smart_processing \in BOOLEAN, init_error \in InitErrors,
          token_limit \in CliTokenLimits :
          cli = [pc |-> "compile",
                 smart_processing |-> smart_processing,
                 init_error |-> init_error,
                 token_limit |-> token_limit,
                 log |-> <<>>]

\* compile_project_files has returned to process_files
compile_returned == orch \in {"done", "error"}

\* compile_project_files(...) returns, or sys.exit(1) or an unhandled
\* exception of it leaves process_files; if self.config["smart_processing"]:
CompileReturns ==
    /\ cli.pc = "compile"
    /\ orch \in {"done", "error", "exit", "raised"}
    /\ cli' = [cli EXCEPT !.pc = IF ~compile_returned THEN "propagated"
                                 ELSE IF cli.smart_processing THEN "construct"
                                 ELSE "returned"]
    /\ UNCHANGED <<codebase, sfp, compile_vars>>

\* processor = SmartFileProcessor(...), called outside the try statement
Construct ==
    /\ cli.pc = "construct"
    /\ IF cli.init_error # "none"
       THEN /\ cli' = [cli EXCEPT !.pc = "propagated"]
            /\ UNCHANGED sfp
       ELSE /\ cli' = [cli EXCEPT !.pc = "process"]
            /\ sfp' = SmartFileProcessor(cli.token_limit, codebase)
    /\ UNCHANGED <<codebase, compile_vars>>

\* processor.process() returns: self.logger.info("Smart processing complete...")
SmartComplete ==
    /\ cli.pc = "process"
    /\ sfp.pc = "done"
    /\ cli' = [cli EXCEPT !.pc = "returned", !.log = Append(@, "info")]
    /\ UNCHANGED <<codebase, sfp, compile_vars>>

\* except Exception as e: self.logger.error("Error during smart processing...")
SmartFailed ==
    /\ cli.pc = "process"
    /\ sfp.pc = "raised"
    /\ cli' = [cli EXCEPT !.pc = "returned", !.log = Append(@, "error")]
    /\ UNCHANGED <<codebase, sfp, compile_vars>>

NextCli ==
    \/ Next
    \/ NextChunks
    \/ CompileReturns
    \/ Construct
    \/ SmartComplete
    \/ SmartFailed

SpecCli == InitCli /\ [][NextCli]_vars

-----------------------------------------------------------------------------
(* Vocabulary of the properties *)

Indices == DOMAIN disk

HasKind(blocks, kinds) == \E i \in 1..Len(blocks) : blocks[i].kind \in kinds

\* the file was in the output location before the run
Preexisting(n) == n \in Indices /\ HasKind(disk[n], {"old"})

HoldsFragment(n) == n \in Indices /\ HasKind(disk[n], {"frag"})

\* the run created the file or appended to it
Produced(n) == n \in Indices /\ (~Preexisting(n) \/ HoldsFragment(n))

TreeKinds == {"tree", "header_tree", "tree_only"}
HeaderKinds == {"header", "header_tree"}

TreeCount(n) ==
    Cardinality({i \in 1..Len(disk[n]) : disk[n][i].kind \in TreeKinds})

RECURSIVE SumOver(_, _)
SumOver(S, n) ==
    IF S = {} THEN 0
    ELSE LET x == CHOOSE y \in S : TRUE IN n[x] + SumOver(S \ {x}, n)

TreeCountAll == SumOver(Indices, [n \in Indices |-> TreeCount(n)])

\* occurrences of the fragment of task w in file n
FragmentCount(w, n) ==
    Cardinality({i \in 1..Len(disk[n]) :
                   disk[n][i].kind = "frag" /\ disk[n][i].id = w})

FragmentCountAll(w) == SumOver(Indices, [n \in Indices |-> FragmentCount(w, n)])

HeaderAndTreeBytes ==
    explanation_bytes(cfg.output_format, cfg.start_marker, cfg.end_marker)
    + tree_bytes(cfg.output_format, file_counter.tree)

InCriticalSection(w) ==
    pc[w] \in {"name", "exists", "explain", "tree", "flag", "size", "decide", "release"}

-----------------------------------------------------------------------------
(* Properties *)

\* C1: with limit_size > 0, every output file the run created or appended to
\* has at most limit_size bytes, unless header plus tree alone exceed limit_size.
C1_NoOversizeOutput ==
    (/\ cfg.limit_size > 0
     /\ orch \in {"pool", "aggregate", "done"}
     /\ HeaderAndTreeBytes <= cfg.limit_size)
    => \A n \in Indices : Produced(n) => getsize(disk[n]) <= cfg.limit_size

\* a finished run that rolled over and filled two files within the limit
C1_Witness ==
    /\ orch = "done"
    /\ cfg.limit_size > 0
    /\ HeaderAndTreeBytes <= cfg.limit_size
    /\ \E n \in Indices : n >= 2 /\ HoldsFragment(n) /\ HoldsFragment(1)
                          /\ getsize(disk[n]) <= cfg.limit_size

\* C2: after a completed run the tree is in the output exactly once, in file 1.
C2_TreeOnceInFirstFile ==
    orch = "done" => (TreeCountAll = 1 /\ 1 \in Indices /\ TreeCount(1) = 1)

\* C3: with a positive limit and a fragment no longer than the limit, the
\* rollover loop ends: the file a task has just created (header only) has room
\* for the fragment.  When this fails, every further index gives the same fresh
\* file and the same decision, so the loop advances without end.
C3_RolloverTerminates ==
    \A w \in Tasks :
        (/\ cfg.limit_size > 0
         /\ file_content[w] <= cfg.limit_size
         /\ pc[w] = "decide"
         /\ disk[cur[w]] = explanation_blocks(cfg.output_format, cfg.start_marker,
                                              cfg.end_marker))
        => ~exceeds_limit(cfg.limit_size, current_size[w], file_content[w])

\* C4: the decide-then-write sequence is one critical section: whoever is in
\* it holds the lock, and what it has read (index, existence, first-file flag,
\* size) is still what the shared state holds.
C4_CriticalSection ==
    \A w \in Tasks :
        /\ InCriticalSection(w) => write_lock = w
        /\ pc[w] \in {"exists", "explain", "tree", "flag", "size", "decide"}
             => cur[w] = file_counter.count
        /\ pc[w] = "explain" => cur[w] \notin Indices
        /\ pc[w] \in {"tree", "flag"} => file_counter.first_file
        /\ pc[w] = "decide" => current_size[w] = getsize(disk[cur[w]])

\* one task decides inside the critical section while another waits for the lock
C4_Witness ==
    \E w, v \in Tasks : w # v /\ pc[w] = "decide" /\ pc[v] = "wait"

\* C5: when the run completes, the fragment of every candidate file is in the
\* output exactly once, whole.
C5_EveryFragmentOnce ==
    orch = "done" =>
        \A w \in Tasks :
            /\ FragmentCountAll(w) = 1
            /\ \A n \in Indices : \A i \in 1..Len(disk[n]) :
                 (disk[n][i].kind = "frag" /\ disk[n][i].id = w)
                 => disk[n][i].bytes =
                      fragment_bytes(cfg.output_format,
                                     relpath(file_list[w], cfg.dir_path),
                                     fs.attr[file_list[w]], cfg)

\* a finished run of three tasks that rolled over
C5_Witness ==
    orch = "done" /\ Len(file_list) = 3 /\ file_counter.count >= 2
    /\ \E n \in Indices : \E v, w \in Tasks :
         v # w /\ FragmentCount(v, n) = 1 /\ FragmentCount(w, n) = 1

\* C6: every output file that holds a fragment got the header of the format
\* written to it by the run before the fragment, and begins with it.
C6_HeaderBeforeFragment ==
    \A n \in Indices :
        HoldsFragment(n) =>
            /\ ~Preexisting(n)
            /\ explanation_blocks(cfg.output_format, cfg.start_marker,
                                  cfg.end_marker) # <<>>
                 => disk[n][1].kind \in HeaderKinds

\* the directories strictly below the scan root that contain the path
AncestorDirs(path) ==
    {q \in DOMAIN fs.ls : q # cfg.dir_path /\ StartsWith(path, q \o SEP)}

\* a directory the candidate walk does not descend into
PrunedDir(q) ==
    \/ any_fnmatch(q, cfg.ignore_patterns)
    \/ basename(q) \in Range(cfg.exclude_dirs)

Candidates == Range(file_list)

\* the file passes every configured axis
PassesEveryAxis(path) ==
    LET name == basename(path)
    IN  /\ name \notin Range(cfg.exclude_files)
        /\ \A i \in 1..Len(cfg.ignore_patterns) : ~fnmatch(path, cfg.ignore_patterns[i])
        /\ \A q \in AncestorDirs(path) : ~PrunedDir(q)
        /\ cfg.include_extensions = <<>>
             \/ \E i \in 1..Len(cfg.include_extensions) :
                  endswith(name, cfg.include_extensions[i])
        /\ \A i \in 1..Len(cfg.exclude_extensions) :
             ~endswith(name, cfg.exclude_extensions[i])
        /\ cfg.pattern_include = <<>>
             \/ \E i \in 1..Len(cfg.pattern_include) :
                  fnmatch(name, cfg.pattern_include[i])
        /\ \A i \in 1..Len(cfg.pattern_exclude) :
             ~fnmatch(name, cfg.pattern_exclude[i])
        /\ ~fs.attr[path].binary
        /\ fs.attr[path].open_error = "none"

tree_line_of(path) ==
    Spaces(4 * (count_sep(relpath(path, cfg.dir_path)) + 1)) \o basename(path)

TreeInOutput == \E n \in Indices : TreeCount(n) >= 1

\* C8: over an empty root directory the tree is the root line only, no
\* fragment is written, and output file 1 is still created with the header.
C8_EmptyRootStillWritesHeader ==
    (fs.exists /\ fs.ls[cfg.dir_path] = Dir(<<>>, <<>>) /\ orch = "done") =>
        /\ file_counter.tree = <<basename(cfg.dir_path) \o SEP>>
        /\ \A n \in Indices : ~HoldsFragment(n)
        /\ 1 \in Indices
        /\ explanation_blocks(cfg.output_format, cfg.start_marker, cfg.end_marker) # <<>>
             => (disk[1] # <<>> /\ disk[1][1].kind \in HeaderKinds)

\* C9: three text files of 2000, 500 and 500 bytes, limit_size 2200,
\* structured text: the index advances exactly once, and the run ends with
\* two output files, the first holding header, tree and the first file's fragment.
C9_ScenarioTwoFiles ==
    (fs = FsScenario /\ cfg.limit_size = 2200 /\ cfg.output_format = "markdown") =>
        /\ file_counter.count <= 2
        /\ orch = "done" =>
             /\ Indices = {1, 2}
             /\ file_counter.count = 2
             /\ HasKind(disk[1], {"header"})
             /\ HasKind(disk[1], {"tree"})
             /\ \E w \in Tasks : file_list[w] = join(Root, f1_txt)
                                 /\ FragmentCount(w, 1) = 1

\* C10: a file matched by an ignore pattern and a file under a directory
\* named in exclude_dirs have no fragment in the output and no line in the
\* tree written to the output.
C10_ExcludedAbsentFromOutputAndTree ==
    \A path \in DOMAIN fs.attr :
        (\/ any_fnmatch(path, cfg.ignore_patterns)
         \/ \E q \in AncestorDirs(path) : basename(q) \in Range(cfg.exclude_dirs))
        => /\ \A w \in Tasks : file_list[w] = path => FragmentCountAll(w) = 0
           /\ TreeInOutput => tree_line_of(path) \notin Range(file_counter.tree)

\* the file read as a sequence of one-line records: the header document is
\* written with indent=4 and spans lines, a fragment is one json.dumps line
one_line_records(blocks) ==
    \A i \in 1..Len(blocks) : blocks[i].kind = "frag"

FragmentsIn(n) ==
    Cardinality({i \in 1..Len(disk[n]) : disk[n][i].kind = "frag"})

\* C11: JSON format, two candidates, no size limit, empty output location:
\* after the run file 1 holds exactly two records and the tree field, and the
\* file as a whole is one valid document or a valid sequence of one-line records.
C11_JsonOutputParses ==
    (/\ cfg.output_format = "json"
     /\ cfg.limit_size = 0
     /\ Len(file_list) = 2
     /\ orch = "done"
     /\ \A n \in Indices : ~Preexisting(n))
    => /\ 1 \in Indices
       /\ FragmentsIn(1) = 2
       /\ TreeCount(1) = 1
       /\ json_loads(disk[1]) \/ one_line_records(disk[1])

\* C12: the totals are computed only after every task of the pool has
\* finished: while compile_project_files reads the index and the output
\* files, or has read them, no task is queued or running.
C12_AggregationAfterPoolDrain ==
    orch \in {"aggregate", "done"} =>
        /\ files_processed = Len(file_list)
        /\ \A w \in Tasks : pc[w] = "done"
        /\ write_lock = 0

\* the totals are about to be computed over three fragments in two files
C12_Witness ==
    /\ orch = "aggregate"
    /\ Len(file_list) = 3
    /\ file_counter.count >= 2
    /\ \A w \in Tasks : FragmentCountAll(w) = 1

\* C13: the tree is built once, by compile_project_files alone, before any
\* task exists; from then on the shared state holds that same tree, and the
\* tree written to the output is that tree whatever the interleaving.
C13_TreeFinalBeforeWorkers ==
    LET tree == generate_tree(cfg.dir_path, cfg.ignore_patterns, fs.ls)
    IN  /\ orch \in {"start", "tree"} =>
             /\ file_counter.tree = <<>>
             /\ file_list = <<>>
             /\ pc = <<>>
             /\ \A n \in Indices : ~HoldsFragment(n) /\ TreeCount(n) = 0
        /\ orch \in {"collect", "pool", "aggregate", "done"} =>
             file_counter.tree = tree
        /\ \A n \in Indices : \A i \in 1..Len(disk[n]) :
             /\ disk[n][i].kind = "tree" =>
                  disk[n][i].bytes = tree_bytes(cfg.output_format, tree)
             /\ disk[n][i].kind = "tree_only" =>
                  disk[n][i].bytes = tree_only_bytes(tree)

\* two tasks run at once after a third has written the tree
C13_Witness ==
    /\ TreeCountAll = 1
    /\ ~file_counter.first_file
    /\ \E v, w \in Tasks : v # w /\ pc[v] = "decide" /\ pc[w] = "render"

\* C14: when the root directory does not exist the run stops at the check
\* with sys.exit(1): no tree is built, no candidate is collected, no task
\* exists, and the output location holds what it held before the run.
C14_MissingRootFailsFast ==
    ~fs.exists =>
        /\ orch \in {"start", "exit"}
        /\ file_counter.tree = <<>>
        /\ file_list = <<>>
        /\ pc = <<>>
        /\ files_processed = 0
        /\ disk \in InitialDisks
        /\ \A n \in Indices : \A i \in 1..Len(disk[n]) : disk[n][i].kind = "old"

\* the run has exited over a missing root, next to an older output file
C14_Witness ==
    ~fs.exists /\ orch = "exit" /\ 1 \in Indices /\ Preexisting(1)

\* the fragment of task w as it is rendered when the file cannot be read
placeholder_fragment_bytes(w) ==
    fragment_bytes(cfg.output_format, relpath(file_list[w], cfg.dir_path),
                   [fs.attr[file_list[w]] EXCEPT !.content =
                      read_file_content(file_list[w], @, TRUE)],
                   cfg)

\* the candidate of task w cannot be read when the task runs: its permissions
\* changed, or it was removed, after the candidate walk
UnreadableAtTaskTime(w) == hits("read", w) \/ hits("stat", w)

\* C15: a candidate that cannot be read at task time does not make its task
\* raise: a fragment with the placeholder text is written for it, and the
\* fragments of the other candidates are written as well.
C15_UnreadableCandidateGetsPlaceholder ==
    \A w \in Tasks :
        UnreadableAtTaskTime(w) =>
            /\ pc[w] # "failed"
            /\ orch \notin {"unwind", "error"}
            /\ orch = "done" =>
                 /\ \A v \in Tasks : FragmentCountAll(v) = 1
                 /\ \E n \in Indices : \E i \in 1..Len(disk[n]) :
                      /\ disk[n][i].kind = "frag"
                      /\ disk[n][i].id = w
                      /\ disk[n][i].bytes = placeholder_fragment_bytes(w)

\* for a candidate that is still there but cannot be opened, the statement holds
PresentButUnreadableGetsPlaceholder ==
    \A w \in Tasks :
        hits("read", w) =>
            /\ pc[w] # "failed"
            /\ orch \notin {"unwind", "error"}
            /\ orch = "done" =>
                 /\ \A v \in Tasks : FragmentCountAll(v) = 1
                 /\ \E n \in Indices : \E i \in 1..Len(disk[n]) :
                      /\ disk[n][i].kind = "frag"
                      /\ disk[n][i].id = w
                      /\ disk[n][i].bytes = placeholder_fragment_bytes(w)

\* writing the header or the tree fails in task w
HeaderWriteFails(w) == hits("write_explanation", w) \/ hits("write_tree", w)

\* C16: when writing the header or the tree fails, the run continues: the
\* task in which it failed and every other task still write their fragments,
\* and the run reaches the totals.
C16_HeaderFailureDoesNotAbort ==
    \A w \in Tasks :
        HeaderWriteFails(w) =>
            /\ pc[w] # "failed"
            /\ \A v \in Tasks : pc[v] # "cancelled"
            /\ orch \notin {"unwind", "error"}
            /\ orch = "done" => \A v \in Tasks : FragmentCountAll(v) = 1

\* when the failure is a FileNotFoundError the loop of process_file absorbs
\* it and the statement holds
HeaderFileNotFoundDoesNotAbort ==
    \A w \in Tasks :
        (HeaderWriteFails(w) /\ except_FileNotFoundError(fault.error)) =>
            /\ pc[w] # "failed"
            /\ \A v \in Tasks : pc[v] # "cancelled"
            /\ orch \notin {"unwind", "error"}
            /\ orch = "done" => \A v \in Tasks : FragmentCountAll(v) = 1

\* compile_project_files has returned after its handler reported a failure
Reported == orch = "error"

\* C17: an exception raised while the tree is built, the candidates are
\* collected, a task runs or the totals are computed never reaches the caller:
\* the handler of compile_project_files reports it and the function returns
\* (a failed task is never passed over in silence, and a report stands for a
\* failure that happened); the step that reports leaves the output files as
\* they are, and nothing is written after it.
C17_ExceptionsCaughtAtTopLevel ==
    /\ [](/\ orch # "raised"
          /\ Reported => (fault # NoFault /\ \A w \in Tasks : task_finished(w)
                          /\ write_lock = 0)
          /\ (\E w \in Tasks : pc[w] = "failed") =>
               orch \in {"pool", "unwind", "error"})
    /\ [][(Reported \/ Reported') => disk' = disk]_vars

\* the handler has reported the failure of one task; another task had already
\* written its fragment and a third one was cancelled
C17_Witness ==
    /\ Reported
    /\ \E u, v, w \in Tasks :
         /\ pc[u] = "failed" /\ pc[v] = "done" /\ pc[w] = "cancelled"
         /\ FragmentCountAll(v) = 1

\* the chunk list has its final value
SplitFinished == sfp.pc \in {"generate", "done"}

RECURSIVE chunk_tokens(_)
chunk_tokens(chunk) ==
    IF chunk = <<>> THEN 0
    ELSE estimate_tokens(Head(chunk).content) + chunk_tokens(Tail(chunk))

\* C18: every chunk of the chunk list holds files whose estimated token
\* counts sum to at most the token limit.
C18_ChunkWithinTokenLimit ==
    sfp.pc # "none" =>
        \A k \in 1..Len(sfp.chunks) :
            chunk_tokens(sfp.chunks[k]) <= sfp.token_limit

\* split_into_chunks has ended with a chunk of two files that fills the limit
\* and a second chunk
C18_Witness ==
    /\ SplitFinished
    /\ Len(sfp.chunks) >= 2
    /\ \E k \in 1..Len(sfp.chunks) :
         /\ Len(sfp.chunks[k]) >= 2
         /\ chunk_tokens(sfp.chunks[k]) = sfp.token_limit

RECURSIVE Concat(_)
Concat(chunks) ==
    IF chunks = <<>> THEN <<>> ELSE Head(chunks) \o Concat(Tail(chunks))

Occurrences(path, entries) ==
    Cardinality({k \in 1..Len(entries) : entries[k].relative_path = path})

\* the file is skipped: its estimate alone exceeds the limit
Oversize(f) == estimate_tokens(f.content) > sfp.token_limit

AnalysisFails(f) == f.status \in {"syntax_error", "undecodable", "unopenable"}

\* some chunk document has a section for the file
Documented(path) ==
    \E d \in 1..Len(sfp.documents) :
        \E k \in 1..Len(sfp.documents[d]) : sfp.documents[d][k] = path

\* what process() does around a file i whose analysis fails
BatchSurvives(i) ==
    /\ sfp.pc # "raised"
    /\ sfp.pc \in {"split", "loop", "generate", "done"} =>
         /\ Len(sfp.file_metadata) = Len(codebase)
         /\ sfp.file_metadata[i].imports = <<>>
         /\ sfp.file_metadata[i].classes = <<>>
         /\ sfp.file_metadata[i].functions = <<>>
         /\ \A j \in DOMAIN codebase :
              sfp.file_metadata[j] = process_file(codebase[j])
    /\ sfp.pc = "done" =>
         \A j \in DOMAIN codebase :
             (j # i /\ ~Oversize(codebase[j])) => Documented(codebase[j].relative_path)

\* C20: a file whose analysis fails yields empty imports, classes and
\* functions and never aborts the batch: process() records the metadata of
\* every file and emits chunk documents for the remaining files.
C20_FailedAnalysisDoesNotAbort ==
    \A i \in DOMAIN codebase : AnalysisFails(codebase[i]) => BatchSurvives(i)

\* for a file that can be read but not parsed, the statement holds
SyntaxErrorDoesNotAbort ==
    \A i \in DOMAIN codebase :
        codebase[i].status = "syntax_error" => BatchSurvives(i)

\* the output files 1..count that exist, one after the other
RECURSIVE concatenated(_, _)
concatenated(i, d) ==
    IF i = 0 THEN <<>>
    ELSE concatenated(i - 1, d) \o (IF i \in DOMAIN d THEN d[i] ELSE <<>>)

\* C21: after a completed run the reported total token count, the sum of the
\* word counts of the output files 1..count, is the word count of those files
\* concatenated in index order.
C21_TokenTotalOfConcatenation ==
    orch = "done" =>
        total_tokens = count_tokens_in_file(concatenated(file_counter.count, disk))

\* C22: with limit_size = 0 the shared index stays at 1, and a completed run
\* over at least one candidate has produced output file 1 and no other, with
\* the fragment of every candidate in it.
C22_UnlimitedKeepsOneFile ==
    cfg.limit_size = 0 =>
        /\ file_counter.count = 1
        /\ \A n \in Indices : Produced(n) => n = 1
        /\ (orch = "done" /\ file_list # <<>>) =>
             /\ 1 \in Indices
             /\ \A w \in Tasks : FragmentCount(w, 1) = 1

\* an unlimited run has put three fragments, 600 bytes of content, into
\* file 1
C22_Witness ==
    /\ cfg.limit_size = 0
    /\ orch = "done"
    /\ Len(file_list) = 3
    /\ \A w \in Tasks : FragmentCount(w, 1) = 1
    /\ getsize(disk[1]) > 1100

\* position of a block in the order header, tree, fragments; what a file
\* held before the run counts as fragments
block_rank(b) ==
    IF b.kind = "header" THEN 1
    ELSE IF b.kind \in TreeKinds THEN 2
    ELSE 3

\* the lifecycle state of output file n: 0 NOT_CREATED, 1 HEADER_WRITTEN,
\* 2 TREE_WRITTEN, 3 APPENDING, 4 SEALED
lifecycle(n, d, fc) ==
    IF n \notin DOMAIN d THEN 0
    ELSE IF n < fc.count THEN 4
    ELSE IF HasKind(d[n], {"frag", "old"}) THEN 3
    ELSE IF HasKind(d[n], TreeKinds) THEN 2
    ELSE 1

\* in every file the header precedes the tree and the tree the fragments, and
\* a file that holds the tree has no file created by the run before it
LifecycleOrder ==
    \A n \in Indices :
        /\ \A i, j \in 1..Len(disk[n]) :
             i < j => \/ block_rank(disk[n][i]) < block_rank(disk[n][j])
                      \/ block_rank(disk[n][j]) = 3
        /\ TreeCount(n) > 0 =>
             \A m \in Indices : m < n => disk[m][1].kind = "old"

\* C23: every output file goes through NOT_CREATED, HEADER_WRITTEN,
\* TREE_WRITTEN, APPENDING, SEALED in this order and never back: the header
\* is written before the tree, the tree before any fragment, and only the
\* first file the run creates gets the tree.
C23_FileLifecycle ==
    /\ [](LifecycleOrder)
    /\ [][\A n \in Indices' :
            lifecycle(n, disk', file_counter') >= lifecycle(n, disk, file_counter)]_vars

\* file 1 is sealed with header, tree and a fragment, file 2 is being
\* appended to and holds the header and a fragment without the tree
C23_Witness ==
    /\ file_counter.count = 2
    /\ {1, 2} \subseteq Indices
    /\ lifecycle(1, disk, file_counter) = 4
    /\ lifecycle(2, disk, file_counter) = 3
    /\ Len(disk[1]) = 3 /\ disk[1][1].kind = "header" /\ disk[1][2].kind = "tree"
    /\ disk[1][3].kind = "frag"
    /\ Len(disk[2]) = 2 /\ disk[2][1].kind = "header" /\ disk[2][2].kind = "frag"

\* the line generate_tree writes for a directory
tree_dir_line_of(q) ==
    Spaces(4 * count_sep(replace(q, cfg.dir_path))) \o basename(q) \o SEP

\* the directories strictly below the scan root that are q or lie beneath q
DirsBeneath(q) ==
    {p \in DOMAIN fs.ls : p # cfg.dir_path /\ (p = q \/ StartsWith(p, q \o SEP))}

Unopenable == {path \in DOMAIN fs.attr : fs.attr[path].open_error # "none"}

\* C25: is_binary raises for no file: a file that cannot be opened at
\* discovery time counts as binary and is no candidate, the other files are
\* collected as without it, and the run does not fail because of it.
C25_IsBinaryNeverRaises ==
    /\ \A path \in DOMAIN fs.attr :
         /\ ~is_binary_raises(fs.attr, path)
         /\ path \in Unopenable => is_binary(fs.attr, path)
    /\ orch \in {"pool", "unwind", "aggregate", "done"} =>
         \A path \in DOMAIN fs.attr :
             /\ path \in Unopenable => path \notin Candidates
             /\ path \notin Unopenable =>
                  (path \in Candidates <=> PassesEveryAxis(path))
    /\ (fault = NoFault /\ fs.exists) => orch \notin {"error", "raised"}

\* a run over a directory with a file that cannot be opened has completed
\* with the fragments of two other files written
C25_Witness ==
    /\ Unopenable # {}
    /\ orch = "done"
    /\ Len(file_list) = 2
    /\ \A w \in Tasks : FragmentCountAll(w) = 1

\* C26: the workers of the metadata phase share nothing: a worker returns
\* the record of its own file, nothing is merged into file_metadata before
\* every worker has returned, and the merged mapping holds one record per
\* discovered file, the record that file alone determines, in whatever order
\* the workers ran.
C26_MetadataSameForEveryInterleaving ==
    /\ sfp.pc = "analyze" =>
         /\ sfp.file_metadata = <<>>
         /\ \A i \in DOMAIN codebase :
              sfp.results[i] # <<>> => sfp.results[i] = process_file(codebase[i])
    /\ sfp.pc \in {"split", "loop", "generate", "done", "raised"} =>
         /\ DOMAIN sfp.file_metadata = DOMAIN codebase
         /\ \A i \in DOMAIN codebase :
              /\ sfp.file_metadata[i] = process_file(codebase[i])
              /\ sfp.file_metadata[i].file_path = codebase[i].relative_path
              /\ sfp.file_metadata[i].size = codebase[i].size
         /\ \A i, j \in DOMAIN codebase :
              sfp.file_metadata[i].file_path = sfp.file_metadata[j].file_path
                  => i = j

\* the records of three files, one of them with a syntax error, are merged
C26_Witness ==
    /\ sfp.pc = "split"
    /\ Len(codebase) = 3
    /\ \E i \in DOMAIN codebase : codebase[i].status = "syntax_error"
    /\ \E i, j \in DOMAIN codebase :
         /\ i # j
         /\ sfp.file_metadata[i].classes # <<>>
         /\ sfp.file_metadata[j].classes # <<>>

UnknownFormat == cfg.output_format \notin {"markdown", "html", "json"}

\* every fragment in the output is the structured-text fragment of its file
StructuredTextFragments ==
    \A n \in Indices : \A i \in 1..Len(disk[n]) :
        disk[n][i].kind = "frag" =>
            LET path == file_list[disk[n][i].id]
            IN  disk[n][i].bytes =
                    fragment_bytes("markdown", relpath(path, cfg.dir_path),
                                   fs.attr[path], cfg)

\* C27: for a format that is none of markdown, html, json a completed run has
\* written the structured-text fragment of every file, and the first file it
\* created begins with the structured-text preamble followed by the tree.
C27_UnknownFormatAsStructuredText ==
    (UnknownFormat /\ orch = "done" /\ file_list # <<>>) =>
        /\ StructuredTextFragments
        /\ \E n \in Indices :
             /\ Len(disk[n]) >= 2
             /\ disk[n][1] = Block("header", 0,
                                   explanation_bytes("markdown", cfg.start_marker,
                                                     cfg.end_marker))
             /\ disk[n][2] = Block("tree", 0,
                                   tree_bytes("markdown", file_counter.tree))

\* the part of C27 that holds: the fragments fall back to structured text
UnknownFormatFragmentFallsBack ==
    (UnknownFormat /\ orch = "done" /\ file_list # <<>>) =>
        /\ StructuredTextFragments
        /\ \A w \in Tasks : FragmentCountAll(w) = 1

\* the shared index has advanced past output file n
Sealed(n) == n \in Indices /\ n < file_counter.count

\* C28: once the shared index has advanced past n, no step of any worker
\* changes output file n, whether or not a later fragment would fit into it.
C28_SealedFileUnchanged ==
    [][\A n \in Indices : Sealed(n) => (n \in Indices' /\ disk'[n] = disk[n])]_vars

\* a completed run has put into a later file a fragment that the limit would
\* have allowed in a sealed file
C28_Witness ==
    /\ orch = "done"
    /\ cfg.limit_size > 0
    /\ \E n, m \in Indices : \E i \in 1..Len(disk[m]) :
         /\ Sealed(n)
         /\ n < m
         /\ disk[m][i].kind = "frag"
         /\ getsize(disk[n]) + disk[m][i].bytes <= cfg.limit_size

\* C29: for every limit_size <= 0 the shared index stays at 1 and every
\* fragment written is appended to output file 1.
C29_NoAdvanceWithoutPositiveLimit ==
    cfg.limit_size <= 0 =>
        /\ file_counter.count = 1
        /\ \A n \in Indices : HoldsFragment(n) => n = 1
        /\ \A w \in Tasks : pc[w] \in {"release", "done"} => FragmentCount(w, 1) = 1

\* C30: the index of the shared writer state starts at 1, changes only by +1,
\* by the worker that holds the lock, and never decreases; the first-file flag
\* starts true and only goes from true to false; once the workers exist the
\* tree lines in the state never change.
C30_WriterStateMonotone ==
    /\ [](/\ file_counter.count >= 1
          /\ orch \in {"start", "tree", "collect"} =>
               file_counter.count = 1 /\ file_counter.first_file)
    /\ [][/\ file_counter'.count \in {file_counter.count, file_counter.count + 1}
          /\ file_counter'.count # file_counter.count =>
               \E w \in Tasks : write_lock = w /\ pc[w] = "decide" /\ write_lock' = w
          /\ file_counter'.first_file => file_counter.first_file
          /\ file_counter'.first_file # file_counter.first_file =>
               \E w \in Tasks : write_lock = w /\ pc[w] = "flag"
          /\ orch \in {"pool", "unwind", "aggregate", "done"} =>
               file_counter'.tree = file_counter.tree]_vars

\* the index has advanced twice and the flag is cleared while two workers
\* are still at work
C30_Witness ==
    /\ file_counter.count = 3
    /\ ~file_counter.first_file
    /\ file_counter.tree # <<>>
    /\ \E v, w \in Tasks : v # w /\ write_lock = v /\ pc[w] = "wait"

\* the files the run created or appended to
Written == {n \in Indices : Produced(n)}

\* C31: after a run in which every task completed, the files the run wrote
\* are exactly those with the indices 1..count, and the reported total size
\* is the sum of the sizes of the files the run wrote to.
C31_WrittenFilesAreOneToCount ==
    orch = "done" =>
        /\ Written = 1..file_counter.count
        /\ total_size = SumOver(Written, [n \in Written |-> getsize(disk[n])])

\* the part of C31 that holds: no index up to count is missing once a task
\* has written, and the total is the sum over the files 1..count
NoGapBelowCount ==
    orch = "done" =>
        /\ file_list # <<>> => 1..file_counter.count \subseteq Indices
        /\ Written \subseteq 1..file_counter.count
        /\ total_size = sum_sizes(file_counter.count, disk)

\* the chunk analyzer has been started
AnalyzerStarted == sfp.pc # "none" \/ cli.pc \in {"construct", "process"}

\* C32: in the flow of the command line the chunk analyzer starts only
\* after compile_project_files has returned; a failure of the analyzer is
\* logged and does not leave process_files; no step taken once the analyzer
\* has started changes an output file of the compilation stage.
C32_AnalyzerAfterCompileAndContained ==
    /\ [](/\ AnalyzerStarted =>
               compile_returned /\ \A w \in Tasks : task_finished(w)
          /\ cli.pc = "propagated" => ~compile_returned
          /\ (cli.pc = "returned" /\ sfp.pc = "raised") =>
               cli.log = <<"error">>)
    /\ [][AnalyzerStarted => disk' = disk]_vars

\* the part of C32 that holds: the order of the stages, the containment of
\* a failure of process(), and the output files left alone
ProcessFailureContained ==
    /\ AnalyzerStarted => compile_returned /\ \A w \in Tasks : task_finished(w)
    /\ (cli.pc = "propagated" /\ compile_returned) => cli.init_error # "none"
    /\ (cli.pc = "returned" /\ sfp.pc = "raised") => cli.log = <<"error">>
    /\ sfp.pc = "raised" => cli.pc \in {"off", "process", "returned"}
    /\ AnalyzerStarted => total_size = sum_sizes(file_counter.count, disk)
                          \/ orch = "error"

\* the blocks of s are the first blocks of t
IsPrefix(s, t) == Len(s) <= Len(t) /\ SubSeq(t, 1, Len(s)) = s

\* C33: an output file that exists before the run is taken as created: no
\* step truncates or rewrites it, it gets neither header nor tree, what it
\* held stays the beginning of its content, and what the run adds to it are
\* fragments appended behind.
C33_PreexistingFileOnlyAppended ==
    /\ [](\A n \in Indices :
            Preexisting(n) =>
                /\ disk[n][1].kind = "old"
                /\ \A i \in 2..Len(disk[n]) : disk[n][i].kind = "frag")
    /\ [][\A n \in Indices :
            Preexisting(n) => n \in Indices' /\ IsPrefix(disk[n], disk'[n])]_vars

\* a file found at index 1 has two fragments behind its old content, and
\* the run has written no header and no tree
C33_Witness ==
    /\ orch = "done"
    /\ Preexisting(1)
    /\ Len(disk[1]) = 3
    /\ explanation_blocks(cfg.output_format, cfg.start_marker, cfg.end_marker) # <<>>
    /\ TreeCountAll = 0

\* limit_size is 0, or the fragment of every candidate fits behind a header
FragmentsFitBehindHeader ==
    \/ cfg.limit_size = 0
    \/ fs.exists /\ \A w \in 1..Len(collect_files(cfg, fs)) :
         LET path == collect_files(cfg, fs)[w]
         IN  explanation_bytes(cfg.output_format, cfg.start_marker, cfg.end_marker)
             + fragment_bytes(cfg.output_format, relpath(path, cfg.dir_path),
                              fs.attr[path], cfg)
             <= cfg.limit_size

\* every task has appended its fragment and released the lock, and the
\* aggregation has run
AllWrittenAndAggregated ==
    /\ orch = "done"
    /\ write_lock = 0
    /\ \A w \in Tasks : pc[w] = "done" /\ FragmentCountAll(w) = 1

\* C34: under fair scheduling, when limit_size is 0 or every fragment fits
\* behind a header, a run over an existing directory leads to the state
\* where every task has appended its fragment and released the lock and the
\* aggregation has run; no run stops before it.
C34_FairRunCompletes ==
    (fs.exists /\ FragmentsFitBehindHeader) ~> AllWrittenAndAggregated

\* a run with a positive limit, whose fragments fit behind a header but not
\* all into one file, has completed
C34_Witness ==
    /\ FragmentsFitBehindHeader
    /\ cfg.limit_size > 0
    /\ AllWrittenAndAggregated
    /\ file_counter.count >= 2
    /\ Len(file_list) = 3

\* the number of fragments in the output
FragmentTotal(d) ==
    SumOver(DOMAIN d, [n \in DOMAIN d |->
                         Cardinality({i \in 1..Len(d[n]) : d[n][i].kind = "frag"})])

\* C35: the tree is attached only by the task that holds the lock, to the
\* file it has just created, which holds the header and no fragment; no
\* step removes a fragment from the output, and the minimal document of the
\* record-oriented fallback is written nowhere.
C35_TreeAttachKeepsFragments ==
    /\ [](/\ \A w \in Tasks :
               pc[w] = "tree" =>
                   /\ write_lock = w
                   /\ cur[w] \in Indices
                   /\ disk[cur[w]] = explanation_blocks(cfg.output_format,
                                                        cfg.start_marker,
                                                        cfg.end_marker)
          /\ \A n \in Indices : ~HasKind(disk[n], {"tree_only"}))
    /\ [][/\ FragmentTotal(disk') >= FragmentTotal(disk)
          /\ \A n \in Indices :
               HoldsFragment(n) => TreeCount(n)' = TreeCount(n)]_vars

\* the tree has been attached to a record-oriented file while another task
\* had its fragment ready, and both fragments are in the output afterwards
C35_Witness ==
    /\ cfg.output_format = "json"
    /\ orch = "done"
    /\ \E n \in Indices : HasKind(disk[n], {"header_tree"}) /\ HoldsFragment(n)
    /\ Len(file_list) >= 2
    /\ FragmentTotal(disk) = Len(file_list)

\* every task of the run has completed and the totals are computed
AllTasksCompleted == orch = "done" /\ \A w \in Tasks : pc[w] = "done"

\* C36: after a run whose tasks all completed, every output file with an
\* index from 2 to count holds at least one fragment.
C36_LaterFilesHoldFragment ==
    AllTasksCompleted =>
        \A n \in Indices : (2 <= n /\ n <= file_counter.count) => HoldsFragment(n)

\* the part of C36 that holds: in an output location that was empty before
\* the run only file 1 can end without a fragment
LaterFilesHoldFragmentFromEmpty ==
    (AllTasksCompleted /\ \A n \in Indices : ~Preexisting(n)) =>
        \A n \in Indices : n >= 2 => HoldsFragment(n)

\* C37: no chunk of the chunk list is empty, at any point of the split and
\* for every token limit >= 0: a chunk sealed because the next file does
\* not fit holds at least one file.
C37_NoEmptyChunk ==
    (sfp.pc # "none" /\ sfp.token_limit >= 0) =>
        \A k \in 1..Len(sfp.chunks) : sfp.chunks[k] # <<>>

\* a file too large for the limit was skipped while the current chunk was
\* still empty, and the split has ended with two chunks sealed
C37_Witness ==
    /\ SplitFinished
    /\ Len(sfp.chunks) >= 2
    /\ \E i \in DOMAIN codebase :
         /\ Oversize(codebase[i])
         /\ \A j \in DOMAIN codebase : codebase[i].size <= codebase[j].size
         /\ \A j \in DOMAIN codebase : j < i => codebase[i].size < codebase[j].size

\* C38: chunking is greedy: the tokens of a chunk together with the estimate
\* of the first file of the chunk after it exceed the token limit, for the
\* chunks of the list and for the chunk being filled behind them.
C38_GreedyChunking ==
    sfp.pc \in {"loop", "generate", "done", "raised"} =>
        /\ \A k \in 1..(Len(sfp.chunks) - 1) :
             chunk_tokens(sfp.chunks[k])
             + estimate_tokens(sfp.chunks[k + 1][1].content) > sfp.token_limit
        /\ (sfp.pc \in {"loop", "raised"} /\ sfp.chunks # <<>>) =>
             /\ sfp.current_chunk # <<>>
             /\ chunk_tokens(sfp.chunks[Len(sfp.chunks)])
                + estimate_tokens(sfp.current_chunk[1].content) > sfp.token_limit

\* the split has ended with two chunks, the first of them holding two files
C38_Witness ==
    /\ SplitFinished
    /\ Len(sfp.chunks) = 2
    /\ Len(sfp.chunks[1]) = 2
    /\ chunk_tokens(sfp.chunks[1]) < sfp.token_limit

\* the file and every directory above it below the root have their lines in
\* the tree
ListedInTree(path) ==
    /\ tree_line_of(path) \in Range(file_counter.tree)
    /\ \A q \in AncestorDirs(path) : tree_dir_line_of(q) \in Range(file_counter.tree)

\* C39: every candidate file is listed in the tree.
C39_CandidatesListedInTree ==
    orch \in {"pool", "unwind", "aggregate", "done"} =>
        \A path \in Candidates : ListedInTree(path)

\* a run with candidates two levels down, and a file that is listed in the
\* tree without being a candidate
C39_Witness ==
    /\ orch = "done"
    /\ \E path \in Candidates : count_sep(path) = 3
    /\ \E path \in DOMAIN fs.attr : ListedInTree(path) /\ path \notin Candidates
    /\ cfg.ignore_patterns # <<>>

\* the configuration of the run with the metadata toggle set to b
WithToggle(b) == [cfg EXCEPT !.no_metadata = b]

\* the bytes of the fragment of task w beyond its path and its content
FragmentOverhead(bytes, w) ==
    bytes - Len(relpath(file_list[w], cfg.dir_path)) - fs.attr[file_list[w]].content

\* the fragment of task w under the toggle set to b
FragmentUnder(b, w) ==
    fragment_bytes(cfg.output_format, relpath(file_list[w], cfg.dir_path),
                   fs.attr[file_list[w]], WithToggle(b))

\* the five metadata lines of the candidate of task w
FullMetadata(w) ==
    metadata_bytes(FALSE, fs.attr[file_list[w]].size, fs.attr[file_list[w]].owner)

C40_WitnessMarkup ==
    /\ orch = "done"
    /\ cfg.output_format = "html"
    /\ ~cfg.no_metadata
    /\ \E n \in Indices : HasKind(disk[n], {"frag"})

====
